---------------------------- MODULE Spec2Model ----------------------------
(***************************************************************************)
(* wetware/stem: the off-chain runtime that follows an on-chain head       *)
(* pointer.  Three components are modelled, each with a specification of   *)
(* its own over the shared variables:                                      *)
(*   SpecFinalizer  crates/atom/src/finalizer.rs  (feed / drain_eligible)  *)
(*   SpecMembrane   crates/stem/src/membrane.rs   (graft / poll_status)    *)
(*   SpecIndexer    crates/stem/src/indexer.rs    (run / run_once)         *)
(* 64-bit unsigned integers are scaled to 0..U64Max; byte arrays are       *)
(* sequences of byte values.                                               *)
(***************************************************************************)
EXTENDS Integers, Sequences, FiniteSets, TLC

VARIABLES
    \* ---- chain, as the finalizer's RPC endpoint reports it
    chainHead,      \* what Atom.head() returns now: [seq, cid]
    \* ---- Finalizer (finalizer.rs:197-204)
    pending,        \* Vec<HeadUpdatedObserved>, kept sorted by feed
    emitted,        \* HashSet<String> of dedup keys
    fpc,            \* "idle" | "draining": position inside drain_eligible
    eligible,       \* drain_eligible's local `eligible`, the part not yet visited
    out,            \* drain_eligible's local `out`
    drainTip,       \* the tip argument of the running drain_eligible call
    \* ---- history of the finalizer's calls (observers, not program state)
    drained,        \* concatenation of all Ok(out) results, with the head() seen
    fed,            \* the events fed so far, each with what happened since its last feed
    nfeeds,         \* number of feed calls so far
    lastDrain,      \* result of the last finished drain_eligible, "none" after a feed
    pendingBefore,  \* the pending buffer when the last drain_eligible was entered,
                    \*   <<>> after a feed
    headSteady,     \* head() has not changed since the running drain_eligible was entered
    doneTip,        \* <<tip of the last drain_eligible that returned>>, <<>> after a feed
    \* ---- a call of a pure function
    fnCall,         \* <<the call that has just returned, with its result>>, or <<>>
    \* ---- epoch channel and Membrane (membrane.rs)
    chan,           \* the watch channel's current Epoch
    sessions,       \* the sessions minted by graft, each with what happened since
    gpc,            \* "idle" | "read": position inside MembraneServer::graft
    gEpoch,         \* graft's local `epoch`
    gHist,          \* what the channel did since the running graft read it
    lastGraft,      \* the last graft's promise: "none" | "ok" | "err"
    lastPoll,       \* <<the poll_status call that has just returned>>, or <<>>
    monotone,       \* every send so far carried a seq above the current one
    \* ---- StemIndexer (indexer.rs)
    start_block,    \* config.start_block, kept for the first cycle: run() reads it
                    \*   once, at line 153, to create the cursor
    overflow_checks,\* build profile: TRUE when u64 overflow panics, FALSE when it wraps
    cursor,         \* cursor.last_processed_block
    ipc,            \* position inside run(): "new" | "start" | "tip" | "backfill" | "publish"
                    \*   | "connect" | "head" | "stream" | "sleep" | "panicked"
    from_block,     \* run_once's local `from_block`
    run_tip,        \* run_once's local `tip`
    bfFrom,         \* backfill's local `from`
    bfTo,           \* backfill's local `to`
    observed,       \* backfill's local `observed`, the part not yet published
    current_head,   \* Option<CurrentHead>: <<>> or <<head>>
    lastSent,       \* the last event handed to event_tx.send: <<>> or <<event>>
    lastCycle,      \* how the last run_once ended: "none" | "ok" | "err"
    \* ---- history of the indexer's steps (observers, not program state)
    met,            \* what the step just taken met: an error, a log that does not decode
    sentHist,       \* in_cycle / in_window: lastSent was published in this cycle /
                    \*   since the last subscription open
    missed,         \* <<>> or <<block>>: a log mined in a cycle's window and neither
                    \* fetched by a slice nor delivered by the subscription so far
    \* ---- the indexer's broadcast channel (indexer.rs:129-142)
    bcCount,        \* number of event_tx.send calls so far
    bcTail,         \* number of values the channel has stored
    bcBuf,          \* the ring of slots: slot -> <<>> or <<[pos, val]>>
    bcRx,           \* receivers: id -> <<>> or <<[next, got]>>
    \* ---- the current_head lock (indexer.rs:126, 144-147, 430-467)
    lkWriter,       \* TRUE while the run task holds the write guard
    lkReaders,      \* the current_head() callers that hold a read guard
    lkQueue,        \* tasks waiting for the lock, oldest first: 0 (the run task) or a reader
    lkHead,         \* the value behind the lock: <<>> or <<head>>
    upc,            \* the run task's position in an update of current_head
    ucand,          \* the candidate it has computed: <<>> or <<head>>
    rdpc,           \* each current_head() caller's position
    \* ---- Watcher capabilities on the epoch channel (membrane.rs:59-119)
    epochChan,      \* the watch channel: [version, value, closed]
    watchers,       \* id -> <<>> or <<[seen, pc, local, mark]>>
    lastNext        \* <<>> or <<what the last next() that returned gave>>

finVars == <<chainHead, pending, emitted, fpc, eligible, out, drainTip,
             drained, fed, nfeeds, lastDrain, pendingBefore, headSteady, doneTip>>

fnVars == <<fnCall>>

bcVars == <<bcCount, bcTail, bcBuf, bcRx>>

lkVars == <<lkWriter, lkReaders, lkQueue, lkHead, upc, ucand, rdpc>>

wtVars == <<epochChan, watchers, lastNext>>

memVars == <<chan, sessions, gpc, gEpoch, gHist, lastGraft, lastPoll, monotone>>

idxVars == <<start_block, overflow_checks, cursor, ipc, from_block, run_tip, bfFrom,
             bfTo, observed, current_head, lastSent, lastCycle, met, sentHist, missed>>

otherThanFin == <<memVars, idxVars, fnVars, bcVars, lkVars, wtVars>>
otherThanMem == <<finVars, idxVars, fnVars, bcVars, lkVars, wtVars>>
otherThanIdx == <<finVars, memVars, fnVars, bcVars, lkVars, wtVars>>
otherThanFn == <<finVars, memVars, idxVars, bcVars, lkVars, wtVars>>
otherThanBc == <<finVars, memVars, idxVars, fnVars, lkVars, wtVars>>
otherThanLk == <<finVars, memVars, idxVars, fnVars, bcVars, wtVars>>
otherThanWt == <<finVars, memVars, idxVars, fnVars, bcVars, lkVars>>

vars == <<chainHead, pending, emitted, fpc, eligible, out, drainTip,
          drained, fed, nfeeds, lastDrain, pendingBefore, headSteady, doneTip,
          fnCall,
          chan, sessions, gpc, gEpoch, gHist, lastGraft, lastPoll, monotone,
          start_block, overflow_checks, cursor, ipc, from_block, run_tip, bfFrom,
          bfTo, observed, current_head, lastSent, lastCycle, met, sentHist, missed,
          bcCount, bcTail, bcBuf, bcRx,
          lkWriter, lkReaders, lkQueue, lkHead, upc, ucand, rdpc,
          epochChan, watchers, lastNext>>

(***************************************************************************)
(* Bounds.                                                                 *)
(***************************************************************************)
\* u64::MAX, scaled
U64Max == 3
\* number of feed calls in a run of the finalizer
MaxFeeds == 2
\* the K of ConfirmationDepth(K) the finalizer is built with
Depth == 1
\* number of distinct sessions minted in a run of the membrane
MaxSessions == 2
\* config.getlogs_max_range
GetlogsMaxRange == 2
\* number of logs in one eth_getLogs result
MaxSliceLogs == 2

U64 == 0..U64Max

(***************************************************************************)
(* Values.                                                                 *)
(***************************************************************************)
Seqs == {1, 2}
Cids == {<<97>>, <<98>>}
TxHashes == {<<1>>, <<2>>}
LogIndexes == {0}
Writer == <<171>>

\* what head() can report: seq 0 with an empty cid before any setHead
Heads == {[seq |-> 0, cid |-> <<>>]} \cup [seq : Seqs, cid : Cids]

\* the cid is part of the transaction: a transaction hash fixes it
CidOf(t) == <<96 + t[1]>>

\* HeadUpdatedObserved (abi.rs:18-26); cid_hash stands for keccak256(cid); the
\* head update with seq s is mined in block s (on either branch of a reorg)
HeadUpdatedObserved ==
    { [seq |-> s, writer |-> Writer, cid |-> CidOf(t), cid_hash |-> <<CidOf(t)[1] + 1>>,
       block_number |-> s, tx_hash |-> t, log_index |-> li] :
        s \in Seqs, t \in TxHashes, li \in LogIndexes }

HexDigits == <<"0", "1", "2", "3", "4", "5", "6", "7",
               "8", "9", "a", "b", "c", "d", "e", "f">>

\* hex::encode: two lowercase digits per byte
hex_encode(bytes) ==
    [i \in 1..(2 * Len(bytes)) |->
        IF i % 2 = 1 THEN HexDigits[(bytes[(i + 1) \div 2] \div 16) + 1]
                     ELSE HexDigits[(bytes[i \div 2] % 16) + 1]]

\* u64::saturating_add
saturating_add(a, b) == IF a + b > U64Max THEN U64Max ELSE a + b


(***************************************************************************)
(* Finalizer (crates/atom/src/finalizer.rs).                               *)
(***************************************************************************)
Range(s) == { s[i] : i \in DOMAIN s }

\* ConfirmationDepth(k).is_eligible
ConfirmationDepth_is_eligible(k, ev, tip) == tip >= saturating_add(ev.block_number, k)

is_eligible_at_tip(ev, tip) == tip >= ev.block_number

\* the strategy the finalizer holds: ConfirmationDepth(Depth)
is_eligible(ev, tip) == ConfirmationDepth_is_eligible(Depth, ev, tip)

retain_all(p, tip) == p

\* self.pending.retain(|ev| !self.strategy.is_eligible(ev, tip))
retain_not_eligible(p, tip) == SelectSeq(p, LAMBDA ev : ~is_eligible(ev, tip))

\* dedup_key: format!("{}:{}", hex::encode(ev.tx_hash), ev.log_index)
dedup_key(ev) == <<hex_encode(ev.tx_hash), ":", ev.log_index>>

\* FinalizedEvent::from_observed
from_observed(ev) ==
    [seq |-> ev.seq, cid |-> ev.cid, cid_hash_hex |-> hex_encode(ev.cid_hash),
     block_number |-> ev.block_number, tx_hash_hex |-> hex_encode(ev.tx_hash),
     log_index |-> ev.log_index, writer |-> hex_encode(ev.writer)]

\* the sort key (o.block_number, o.log_index), compared as a tuple
KeyLeq(a, b) ==
    \/ a.block_number < b.block_number
    \/ a.block_number = b.block_number /\ a.log_index <= b.log_index

RECURSIVE InsertSorted(_, _)
InsertSorted(s, e) ==
    IF s = <<>> THEN <<e>>
    ELSE IF KeyLeq(s[Len(s)], e) THEN Append(s, e)
    ELSE Append(InsertSorted(SubSeq(s, 1, Len(s) - 1), e), s[Len(s)])

sort_by_key_skipped(s) == s

\* slice::sort_by_key: a stable sort
RECURSIVE sort_by_key(_)
sort_by_key(s) ==
    IF s = <<>> THEN <<>>
    ELSE InsertSorted(sort_by_key(SubSeq(s, 1, Len(s) - 1)), s[Len(s)])

already_emitted_never(em, key) == FALSE

\* self.emitted.contains(&key)
already_emitted(em, key) == key \in em

head_matches_seq_only(head, ev) == head.seq = ev.seq

\* head.seq == ev.seq && head.cid == ev.cid
head_matches(head, ev) == head.seq = ev.seq /\ head.cid = ev.cid

\* what eth_call + decode_head_return give for one head() call: a transport or
\* RPC error, return bytes that do not decode, or the chain's current head
HeadReplies == { [kind |-> k, head |-> chainHead] : k \in {"rpc_error", "undecodable", "head"} }

HeadOf(ev) == [seq |-> ev.seq, cid |-> ev.cid]

FinInit ==
    /\ chainHead = [seq |-> 0, cid |-> <<>>]
    /\ pending = <<>>
    /\ emitted = {}
    /\ fpc = "idle"
    /\ eligible = <<>>
    /\ out = <<>>
    /\ drainTip = 0
    /\ drained = <<>>
    /\ fed = <<>>
    /\ nfeeds = 0
    /\ lastDrain = "none"
    /\ pendingBefore = <<>>
    /\ headSteady = TRUE
    /\ doneTip = <<>>

\* the contract's head changes: a setHead transaction, or a reorg that reverts one
SetHead(h) ==
    /\ h # chainHead
    /\ chainHead' = h
    /\ fed' = [e \in DOMAIN fed |-> [fed[e] EXCEPT !.stable = @ /\ h = HeadOf(e)]]
    /\ headSteady' = (fpc # "draining")
    /\ UNCHANGED <<pending, emitted, fpc, eligible, out, drainTip, drained,
                   nfeeds, lastDrain, pendingBefore, doneTip>>
    /\ UNCHANGED otherThanFin

\* Finalizer::feed
Feed(ev) ==
    /\ fpc = "idle"
    /\ nfeeds < MaxFeeds
    /\ nfeeds' = nfeeds + 1
    /\ pending' = sort_by_key(Append(pending, ev))
    /\ fed' = [e \in DOMAIN fed \cup {ev} |->
                 IF e = ev
                 THEN [stable |-> chainHead = HeadOf(ev), deep |-> FALSE,
                       again |-> ev \in DOMAIN fed,
                       late |-> \E i \in DOMAIN pending : ~KeyLeq(pending[i], ev)]
                 ELSE fed[e]]
    /\ doneTip' = <<>>
    /\ lastDrain' = "none"
    /\ pendingBefore' = <<>>
    /\ UNCHANGED <<chainHead, emitted, fpc, eligible, out, drainTip, drained, headSteady>>
    /\ UNCHANGED otherThanFin

\* Finalizer::drain_eligible, up to its first head() call
DrainStart(tip) ==
    /\ fpc = "idle"
    /\ eligible' = sort_by_key(SelectSeq(pending, LAMBDA ev : is_eligible(ev, tip)))
    /\ pending' = retain_not_eligible(pending, tip)
    /\ out' = <<>>
    /\ drainTip' = tip
    /\ pendingBefore' = pending
    /\ headSteady' = TRUE
    /\ fpc' = "draining"
    /\ UNCHANGED <<chainHead, emitted, drained, fed, nfeeds, lastDrain, doneTip>>
    /\ UNCHANGED otherThanFin

\* one iteration of `for ev in eligible`
DrainStep ==
    /\ fpc = "draining"
    /\ eligible # <<>>
    /\ LET ev == Head(eligible)
           key == dedup_key(ev)
       IN  IF already_emitted(emitted, key)
           THEN /\ eligible' = Tail(eligible)
                /\ UNCHANGED <<emitted, out, fpc, lastDrain, drainTip, headSteady, doneTip>>
           ELSE \E r \in HeadReplies :
                   IF r.kind # "head"
                   THEN \* `?`: drain_eligible returns Err, its locals are dropped
                        /\ fpc' = "idle"
                        /\ eligible' = <<>>
                        /\ out' = <<>>
                        /\ drainTip' = 0
                        /\ lastDrain' = "err"
                        /\ headSteady' = TRUE
                        /\ doneTip' = <<drainTip>>
                        /\ UNCHANGED emitted
                   ELSE IF head_matches(r.head, ev)
                   THEN /\ emitted' = emitted \cup {key}
                        /\ out' = Append(out, [fe |-> from_observed(ev), head |-> r.head])
                        /\ eligible' = Tail(eligible)
                        /\ UNCHANGED <<fpc, lastDrain, drainTip, headSteady, doneTip>>
                   ELSE /\ eligible' = Tail(eligible)
                        /\ UNCHANGED <<emitted, out, fpc, lastDrain, drainTip, headSteady,
                                       doneTip>>
    /\ UNCHANGED <<chainHead, pending, drained, fed, nfeeds, pendingBefore>>
    /\ UNCHANGED otherThanFin

\* Ok(out)
DrainFinish ==
    /\ fpc = "draining"
    /\ eligible = <<>>
    /\ drained' = drained \o out
    /\ fed' = [e \in DOMAIN fed |->
                 [fed[e] EXCEPT !.deep = @ \/ drainTip >= e.block_number + Depth + 1]]
    /\ lastDrain' = "ok"
    /\ fpc' = "idle"
    /\ out' = <<>>
    /\ drainTip' = 0
    /\ pendingBefore' = <<>>
    /\ headSteady' = TRUE
    /\ doneTip' = <<drainTip>>
    /\ UNCHANGED <<chainHead, pending, emitted, eligible, nfeeds>>
    /\ UNCHANGED otherThanFin

(***************************************************************************)
(* Calls of pure functions, on arguments over their whole range.           *)
(***************************************************************************)
\* the part of a HeadUpdatedObserved that a strategy reads
StrategyEvents == { [block_number |-> b, log_index |-> li] : b \in U64, li \in {0, 1} }

FnInit == fnCall = <<>>

\* ConfirmationDepth(k).is_eligible(&ev, tip)
IsEligibleCall(k, ev, tip) ==
    /\ fnCall = <<>>
    /\ fnCall' = << [fn |-> "is_eligible", depth |-> k, ev |-> ev, tip |-> tip,
                     result |-> ConfirmationDepth_is_eligible(k, ev, tip)] >>
    /\ UNCHANGED otherThanFn

(***************************************************************************)
(* ABI decoding (crates/stem/src/abi.rs).  A 32-byte word is scaled to     *)
(* WordLen bytes: its last byte is the part the decoders read (the low 4   *)
(* bytes of an offset or length word, the low 8 bytes of a seq word), the  *)
(* bytes before it are the part they skip.  "32" is WordLen and "64" is    *)
(* 2 * WordLen.                                                            *)
(***************************************************************************)
WordLen == 2
MaxCidLen == 3
CidBytes == {7, 8}

RECURSIVE SeqsOfLen(_)
SeqsOfLen(n) == IF n = 0 THEN { <<>> }
                ELSE { Append(s, b) : s \in SeqsOfLen(n - 1), b \in CidBytes }

\* cid byte strings of every length up to MaxCidLen
AbiCids == UNION { SeqsOfLen(n) : n \in 0..MaxCidLen }

\* one big-endian word holding v in its low part
Word(v) == [i \in 1..WordLen |-> IF i = WordLen THEN v ELSE 0]

Zeros(n) == [i \in 1..n |-> 0]

\* payload padded with zeros to a whole number of words
Padded(cid) == cid \o Zeros((WordLen - (Len(cid) % WordLen)) % WordLen)

\* HeadReturn::abi_encode(&(seq, cid)): a dynamic tuple behind an offset word
HeadReturn_abi_encode(seq, cid) ==
    Word(WordLen) \o Word(seq) \o Word(2 * WordLen) \o Word(Len(cid)) \o Padded(cid)

\* return data of head(): seq word, offset word 64, length word and payload at 64
head_return_offset64(seq, cid) ==
    Word(seq) \o Word(2 * WordLen) \o Word(Len(cid)) \o Padded(cid)

\* Bytes::abi_encode(&cid): offset word 32, length word, payload
Bytes_abi_encode(cid) == Word(WordLen) \o Word(Len(cid)) \o Padded(cid)

\* event data with offset word 64: a word of zeros, then length word and payload
event_data_offset64(cid) ==
    Word(2 * WordLen) \o Zeros(WordLen) \o Word(Len(cid)) \o Padded(cid)

\* data[a..b]
Slice(data, a, b) == SubSeq(data, a + 1, b)

\* the low part of the word that starts at byte `at`
word_low(data, at) == data[at + WordLen]

AbiErr == [ok |-> FALSE]

\* the library decoder, validate = false, of a (uint64, bytes) tuple:
\* follow the outer offset, read the two head words, follow the bytes offset
\* relative to the tuple, read the length word and take that many bytes
HeadReturn_abi_decode_never(data) == AbiErr
HeadReturn_abi_decode(data) ==
    IF Len(data) < WordLen THEN AbiErr
    ELSE LET o == word_low(data, 0) IN
         IF o > Len(data) THEN AbiErr
         ELSE LET tup == Slice(data, o, Len(data)) IN
              IF Len(tup) < 2 * WordLen THEN AbiErr
              ELSE LET bo == word_low(tup, WordLen) IN
                   IF bo > Len(tup) THEN AbiErr
                   ELSE LET b == Slice(tup, bo, Len(tup)) IN
                        IF Len(b) < WordLen THEN AbiErr
                        ELSE LET n == word_low(b, 0) IN
                             IF Len(b) < WordLen + n THEN AbiErr
                             ELSE [ok |-> TRUE, seq |-> word_low(tup, 0),
                                   cid |-> Slice(b, WordLen, WordLen + n)]

\* fn decode_head_return_manual
decode_head_return_manual(data) ==
    IF Len(data) < 2 * WordLen THEN AbiErr
    ELSE LET cid_offset == word_low(data, WordLen) IN
         IF Len(data) < cid_offset + WordLen THEN AbiErr
         ELSE LET cid_len == word_low(data, cid_offset) IN
              IF Len(data) < cid_offset + WordLen + cid_len THEN AbiErr
              ELSE [ok |-> TRUE, seq |-> word_low(data, 0),
                    cid |-> Slice(data, cid_offset + WordLen,
                                  cid_offset + WordLen + cid_len)]

\* fn decode_head_return
decode_head_return(data) ==
    LET first == HeadReturn_abi_decode(data) IN
    IF first.ok THEN first ELSE decode_head_return_manual(data)

\* the library decoder, validate = false, of one dynamic bytes value
Bytes_abi_decode_never(data) == AbiErr
Bytes_abi_decode(data) ==
    IF Len(data) < WordLen THEN AbiErr
    ELSE LET o == word_low(data, 0) IN
         IF o > Len(data) THEN AbiErr
         ELSE LET b == Slice(data, o, Len(data)) IN
              IF Len(b) < WordLen THEN AbiErr
              ELSE LET n == word_low(b, 0) IN
                   IF Len(b) < WordLen + n THEN AbiErr
                   ELSE [ok |-> TRUE, cid |-> Slice(b, WordLen, WordLen + n)]

\* fn decode_event_data_bytes_manual
decode_event_data_bytes_manual(data) ==
    IF Len(data) < WordLen THEN AbiErr
    ELSE LET cid_offset == word_low(data, 0) IN
         IF Len(data) < cid_offset + WordLen THEN AbiErr
         ELSE LET cid_len == word_low(data, cid_offset) IN
              IF Len(data) < cid_offset + WordLen + cid_len THEN AbiErr
              ELSE [ok |-> TRUE,
                    cid |-> Slice(data, cid_offset + WordLen,
                                  cid_offset + WordLen + cid_len)]

\* fn decode_event_data_bytes
decode_event_data_bytes(data) ==
    LET first == Bytes_abi_decode(data) IN
    IF first.ok THEN first ELSE decode_event_data_bytes_manual(data)

\* the buffer with the high part of the word at `at` set: the word then
\* declares HighUnit more than its low part
HighUnit == 256 ^ (WordLen - 1)
SetHigh(data, at) == [data EXCEPT ![at + 1] = 1]

HeadLayouts == {"offset32", "offset64"}

\* decode_head_return(data) on an encoding of (seq, cid), whole or cut short,
\* with the length word as encoded or declaring more than the low part says
DecodeHeadCall(layout, seq, cid, big, keep) ==
    LET enc    == IF layout = "offset32" THEN HeadReturn_abi_encode(seq, cid)
                  ELSE head_return_offset64(seq, cid)
        len_at == IF layout = "offset32" THEN 3 * WordLen ELSE 2 * WordLen
        full   == IF big THEN SetHigh(enc, len_at) ELSE enc
        data   == SubSeq(full, 1, keep)
    IN  /\ fnCall = <<>>
        /\ keep \in 0..Len(full)
        /\ fnCall' = << [fn |-> "decode_head_return", layout |-> layout,
                         seq |-> seq, cid |-> cid, data |-> data,
                         whole |-> (keep = Len(full)) /\ ~big,
                         needs |-> len_at + WordLen + Len(cid)
                                     + (IF big THEN HighUnit ELSE 0),
                         result |-> decode_head_return(data)] >>
        /\ UNCHANGED otherThanFn

\* decode_event_data_bytes(data) on an encoding of cid, likewise
DecodeEventCall(layout, cid, big, keep) ==
    LET enc    == IF layout = "offset32" THEN Bytes_abi_encode(cid)
                  ELSE event_data_offset64(cid)
        len_at == IF layout = "offset32" THEN WordLen ELSE 2 * WordLen
        full   == IF big THEN SetHigh(enc, len_at) ELSE enc
        data   == SubSeq(full, 1, keep)
    IN  /\ fnCall = <<>>
        /\ keep \in 0..Len(full)
        /\ fnCall' = << [fn |-> "decode_event_data_bytes", layout |-> layout,
                         cid |-> cid, data |-> data,
                         whole |-> (keep = Len(full)) /\ ~big,
                         needs |-> len_at + WordLen + Len(cid)
                                     + (IF big THEN HighUnit ELSE 0),
                         result |-> decode_event_data_bytes(data)] >>
        /\ UNCHANGED otherThanFn

\* FinalizerBuilder: each field unset (<<>>) or set (<<value>>), as new() and
\* the setters strategy / confirmation_depth / http_url / contract_address
\* leave them
DefaultDepth == 6
BuilderStates ==
    [ strategy : {<<>>} \cup { <<k>> : k \in U64 },
      http_url : {<<>>, <<"http">>},
      contract_address : {<<>>, <<Writer>>} ]

\* fn build; client_ok: reqwest::Client::builder().no_proxy().build() is Ok
build_unchecked(b, client_ok) ==
    [ok |-> TRUE, strategy |-> IF b.strategy = <<>> THEN DefaultDepth ELSE b.strategy[1],
     pending |-> <<>>, emitted |-> {}]
FinalizerBuilder_build(b, client_ok) ==
    LET strategy == IF b.strategy = <<>> THEN DefaultDepth ELSE b.strategy[1]
    IN  IF b.http_url = <<>> THEN [ok |-> FALSE, error |-> "http_url required"]
        ELSE IF b.contract_address = <<>>
        THEN [ok |-> FALSE, error |-> "contract_address required"]
        ELSE IF ~client_ok THEN [ok |-> FALSE, error |-> "client"]
        ELSE [ok |-> TRUE, strategy |-> strategy, pending |-> <<>>, emitted |-> {}]

\* builder.build()
BuildCall(b, client_ok) ==
    /\ fnCall = <<>>
    /\ fnCall' = << [fn |-> "build", builder |-> b, client_ok |-> client_ok,
                     result |-> FinalizerBuilder_build(b, client_ok)] >>
    /\ UNCHANGED otherThanFn

\* run(), lines 163-175: the sleep after run_once returned `result`, in
\* milliseconds; jitter is the value drawn by gen_range(0..500).  Duration * 2
\* panics when the seconds overflow u64.
JitterBound == 500
Jitters == {0, 250, JitterBound - 1}

backoff_delay(result, initial, max, jitter) ==
    IF result = "ok" THEN [panic |-> FALSE, delay_ms |-> initial * 1000]
    ELSE IF initial * 2 > U64Max THEN [panic |-> TRUE]
    ELSE [panic |-> FALSE, delay_ms |-> (IF initial * 2 <= max THEN initial * 2 ELSE max) * 1000 + jitter]

\* one pass through the match in run() with the given ReconnectionConfig
BackoffCall(result, initial, max, jitter) ==
    /\ fnCall = <<>>
    /\ fnCall' = << [fn |-> "backoff", cycle |-> result,
                     initial_backoff_secs |-> initial, max_backoff_secs |-> max,
                     result |-> backoff_delay(result, initial, max, jitter)] >>
    /\ UNCHANGED otherThanFn

(***************************************************************************)
(* Epoch channel and Membrane (crates/stem/src/membrane.rs).               *)
(***************************************************************************)
EpochSeqs == {1, 2, 3}
EpochPayloads == { [head |-> <<104, 49>>, adopted_block |-> 100],
                   [head |-> <<104, 50>>, adopted_block |-> 101] }

\* struct Epoch
Epochs == { [seq |-> q, head |-> pl.head, adopted_block |-> pl.adopted_block] :
                q \in EpochSeqs, pl \in EpochPayloads }

\* the value the watch channel is created with
InitEpoch == [seq |-> 1, head |-> <<104, 49>>, adopted_block |-> 100]

\* fill_epoch_builder: copies the three fields into the builder; always Ok(())
fill_epoch_builder(epoch) ==
    [ok |-> TRUE,
     built |-> [seq |-> epoch.seq, adopted_block |-> epoch.adopted_block,
                head |-> [i \in 1..Len(epoch.head) |-> epoch.head[i]]]]

get_current_epoch_at_creation(receiver) == InitEpoch

\* MembraneServer::get_current_epoch: self.receiver.borrow().clone()
get_current_epoch(receiver) == receiver

mint_status_poller_reborrow(epoch, receiver) == [issuance_epoch |-> receiver]

\* StatusPollerServer { issuance_epoch: epoch.clone(), receiver: ... }; the
\* receiver is a handle on the one channel, whose value is `chan`
mint_status_poller(epoch, receiver) == [issuance_epoch |-> epoch]

StaleMessage == <<"staleEpoch", ":", "session", "epoch", "no", "longer", "current">>

Contains(msg, token) == \E i \in DOMAIN msg : msg[i] = token

check_epoch_below(poller, current) ==
    IF current.seq < poller.issuance_epoch.seq
    THEN [ok |-> FALSE, msg |-> StaleMessage]
    ELSE [ok |-> TRUE, msg |-> <<>>]

check_epoch_whole(poller, current) ==
    IF current # poller.issuance_epoch
    THEN [ok |-> FALSE, msg |-> StaleMessage]
    ELSE [ok |-> TRUE, msg |-> <<>>]

\* StatusPollerServer::check_epoch
check_epoch(poller, current) ==
    IF current.seq # poller.issuance_epoch.seq
    THEN [ok |-> FALSE, msg |-> StaleMessage]
    ELSE [ok |-> TRUE, msg |-> <<>>]

\* StatusPollerServer::poll_status: the promise and the status it carries
poll_status(poller, current) ==
    [rpc |-> "ok",
     status |-> IF check_epoch(poller, current).ok THEN "Ok" ELSE "StaleEpoch",
     msg |-> <<>>]

NoHist == [quiet |-> TRUE, advanced |-> FALSE, wasStale |-> FALSE]

\* what a send of `e` adds to the history kept for issuance seq s0
Sent(h, s0, e) ==
    [quiet |-> FALSE,
     advanced |-> h.advanced \/ e.seq > s0,
     wasStale |-> h.wasStale \/ e.seq # s0]

MemInit ==
    /\ chan = InitEpoch
    /\ sessions = {}
    /\ gpc = "idle"
    /\ gEpoch = InitEpoch
    /\ gHist = [snapshot |-> InitEpoch, hist |-> NoHist]
    /\ lastGraft = "none"
    /\ lastPoll = <<>>
    /\ monotone = TRUE

\* watch::Sender::send: overwrites the current value
Send(e) ==
    /\ chan' = e
    /\ monotone' = (monotone /\ e.seq > chan.seq)
    /\ sessions' = { [s EXCEPT !.hist = Sent(@, s.issued_epoch.seq, e)] : s \in sessions }
    /\ gHist' = IF gpc = "read"
                THEN [gHist EXCEPT !.hist = Sent(@, gEpoch.seq, e)]
                ELSE gHist
    /\ lastPoll' = <<>>
    /\ UNCHANGED <<gpc, gEpoch, lastGraft>>
    /\ UNCHANGED otherThanMem

\* MembraneServer::graft, line 76: let epoch = self.get_current_epoch()
GraftRead ==
    /\ gpc = "idle"
    /\ Cardinality(sessions) < MaxSessions
    /\ gEpoch' = get_current_epoch(chan)
    /\ gHist' = [snapshot |-> chan, hist |-> NoHist]
    /\ gpc' = "read"
    /\ lastPoll' = <<>>
    /\ UNCHANGED <<chan, sessions, lastGraft, monotone>>
    /\ UNCHANGED otherThanMem

\* MembraneServer::graft, lines 77-91: build the session and the results
GraftMint ==
    /\ gpc = "read"
    /\ LET issued == fill_epoch_builder(gEpoch)
           poller == mint_status_poller(gEpoch, chan)
           returned == fill_epoch_builder(gEpoch)
       IN  IF ~issued.ok \/ ~returned.ok
           THEN /\ lastGraft' = "err"
                /\ UNCHANGED sessions
           ELSE /\ lastGraft' = "ok"
                /\ sessions' = sessions \cup
                     { [issued_epoch |-> issued.built, status_poller |-> poller,
                        epoch |-> returned.built, snapshot |-> gHist.snapshot,
                        raced |-> ~gHist.hist.quiet, hist |-> gHist.hist] }
    /\ gpc' = "idle"
    /\ gEpoch' = InitEpoch
    /\ gHist' = [snapshot |-> InitEpoch, hist |-> NoHist]
    /\ lastPoll' = <<>>
    /\ UNCHANGED <<chan, monotone>>
    /\ UNCHANGED otherThanMem

\* a client calls poll_status on the status poller of session s
Poll(s) ==
    /\ lastPoll' = << [session |-> s,
                       result |-> poll_status(s.status_poller, chan),
                       repeat |-> lastPoll # <<>> /\ lastPoll[1].session = s] >>
    /\ UNCHANGED <<chan, sessions, gpc, gEpoch, gHist, lastGraft, monotone>>
    /\ UNCHANGED otherThanMem

(***************************************************************************)
(* StemIndexer (crates/stem/src/indexer.rs).                               *)
(***************************************************************************)
\* the decodable HeadUpdated logs an endpoint can deliver: any seq at any block
\* (branches of a reorg differ), and within one block the log of seq 1 before
\* the log of seq 2
IndexerEvents ==
    { [seq |-> q, cid |-> <<97>>, block_number |-> b, log_index |-> q - 1] :
        q \in Seqs, b \in U64 }

IndexerHeads == { [seq |-> q, cid |-> <<97>>] : q \in {0} \cup Seqs }

\* u64 `a + b`: a panic under overflow checks, modulo 2^64 without them
add_u64(a, b) ==
    IF a + b <= U64Max THEN [panic |-> FALSE, value |-> a + b]
    ELSE [panic |-> overflow_checks, value |-> (a + b) % (U64Max + 1)]

\* u64 `a - b`
sub_u64(a, b) ==
    IF a >= b THEN [panic |-> FALSE, value |-> a - b]
    ELSE [panic |-> overflow_checks, value |-> (a - b) % (U64Max + 1)]

\* u64::saturating_sub
saturating_sub(a, b) == IF a >= b THEN a - b ELSE 0

Min(a, b) == IF a <= b THEN a ELSE b

\* cursor.last_processed_block.max(observed.block_number)
cursor_after_log(last, block_number) == IF last >= block_number THEN last ELSE block_number

set_current_head_always(cur, new) == <<new>>

set_current_head_if_greater(cur, new) ==
    IF cur = <<>> \/ new.seq > cur[1].seq THEN <<new>> ELSE cur

\* set_current_head_if_newer
set_current_head_if_newer(cur, new) ==
    IF cur = <<>> \/ new.seq >= cur[1].seq THEN <<new>> ELSE cur

\* candidates for current_head: heads with equal and with different seq
MaxCandidates == 3
CandidateHeads == { [seq |-> q, cid |-> c] : q \in 0..2, c \in {<<97>>, <<98>>} }

RECURSIVE CandidateSeqs(_)
CandidateSeqs(n) == IF n = 0 THEN { <<>> }
                    ELSE { Append(s, h) : s \in CandidateSeqs(n - 1), h \in CandidateHeads }

\* current_head after set_current_head_if_newer was called, from None, with
\* each element of cands in turn
RECURSIVE fold_candidates(_)
fold_candidates(cands) ==
    IF cands = <<>> THEN <<>>
    ELSE set_current_head_if_newer(fold_candidates(SubSeq(cands, 1, Len(cands) - 1)),
                                   cands[Len(cands)])

\* a sequence of set_current_head_if_newer calls on one indexer
FoldCall(cands) ==
    /\ fnCall = <<>>
    /\ cands # <<>>
    /\ fnCall' = << [fn |-> "set_current_head_if_newer", cands |-> cands,
                     before |-> fold_candidates(SubSeq(cands, 1, Len(cands) - 1)),
                     result |-> fold_candidates(cands)] >>
    /\ UNCHANGED otherThanFn

\* one entry of an eth_getLogs result that passed log_matches_head_updated: a
\* log of the block range that decodes, or one that decode_log_to_observed rejects
RawLogs(from, to) ==
    { [kind |-> "log", ev |-> e] :
        e \in { x \in IndexerEvents : from <= x.block_number /\ x.block_number <= to } }
    \cup { [kind |-> "garbage", ev |-> <<>>] }

\* a getLogs result is a view of one chain: no two of its logs share a
\* (block_number, log_index)
OneChain(l) ==
    \A i, j \in DOMAIN l :
        (i < j /\ l[i].kind = "log" /\ l[j].kind = "log") =>
            ~(KeyLeq(l[i].ev, l[j].ev) /\ KeyLeq(l[j].ev, l[i].ev))

\* the results of one eth_get_logs call: Err, or Ok with up to MaxSliceLogs logs
\* in any order
GetLogsResults(from, to) ==
    { [ok |-> FALSE, logs |-> <<>>] }
    \cup { [ok |-> TRUE, logs |-> l] :
             l \in { x \in UNION { [1..n -> RawLogs(from, to)] : n \in 0..MaxSliceLogs } :
                        OneChain(x) } }

RECURSIVE filter_map_decode(_)
\* logs.iter().filter_map(|log| decode_log_to_observed(log).ok()).collect()
filter_map_decode(logs) ==
    IF logs = <<>> THEN <<>>
    ELSE IF Head(logs).kind = "log"
         THEN <<Head(logs).ev>> \o filter_map_decode(Tail(logs))
         ELSE filter_map_decode(Tail(logs))

HasGarbage(logs) == \E i \in DOMAIN logs : logs[i].kind = "garbage"

(***************************************************************************)
(* Which logs reach decode_log_to_observed: the filters of backfill and of *)
(* the subscription loop, on logs as an endpoint may deliver them.         *)
(***************************************************************************)
\* pub const HEAD_UPDATED_TOPIC0
HEAD_UPDATED_TOPIC0 == <<133, 242, 203, 46>>

\* topic0 values: the HeadUpdated topic and the topic of another event
Topic0s == { HEAD_UPDATED_TOPIC0 \o <<17>>, <<221, 242, 82, 173, 27>> }

\* a log as delivered: its address, its topics (none, or topic0 and three
\* indexed values) and whether the rest of it decodes
DeliveredLogs ==
    [ address : {"contract", "other"},
      topics : {<<>>} \cup { <<t, "seq", "writer", "cid_hash">> : t \in Topic0s },
      rest_ok : BOOLEAN ]

\* fn log_matches_head_updated
log_matches_head_updated(log) ==
    /\ log.topics # <<>>
    /\ Len(log.topics[1]) >= 4
    /\ SubSeq(log.topics[1], 1, 4) = HEAD_UPDATED_TOPIC0

\* decode_log_to_observed(log).is_ok(): at least 4 topics, and every field and
\* the data decode; neither topic0 nor the address is looked at
decodes(log) == Len(log.topics) >= 4 /\ log.rest_ok

MaxReplyLogs == 2

\* replies to eth_getLogs with the contract's address in the filter: Err, or
\* logs of the contract, of whatever topic when the endpoint ignores topics
GetLogsReplies ==
    { [ok |-> FALSE, logs |-> <<>>] }
    \cup { [ok |-> TRUE, logs |-> l] :
             l \in UNION { [1..n -> { x \in DeliveredLogs : x.address = "contract" }] :
                              n \in 0..MaxReplyLogs } }

\* backfill, lines 364-407: the topic-filtered call, the address-only
\* fallback after an Err, the address-only call after an empty list, and
\* filter_map(decode_log_to_observed)
backfill_slice_observed(first, fallback, after_empty) ==
    IF ~first.ok /\ ~fallback.ok THEN [ok |-> FALSE, observed |-> <<>>]
    ELSE LET logs1 == IF first.ok THEN first.logs
                      ELSE SelectSeq(fallback.logs, log_matches_head_updated)
             logs  == IF logs1 = <<>> /\ after_empty.ok
                      THEN SelectSeq(after_empty.logs, log_matches_head_updated)
                      ELSE logs1
         IN  [ok |-> TRUE, observed |-> SelectSeq(logs, decodes)]

\* one slice of backfill against an endpoint that gives these replies to the
\* calls the slice makes
SliceFilterCall ==
    /\ fnCall = <<>>
    /\ LET None == [ok |-> FALSE, logs |-> <<>>]
           Call(first, fallback, after_empty) ==
               fnCall' = << [fn |-> "backfill_slice", first |-> first,
                             result |-> backfill_slice_observed(first, fallback,
                                                                after_empty)] >>
       IN  \E first \in GetLogsReplies :
              IF first.ok /\ first.logs # <<>>
              THEN Call(first, None, None)
              ELSE \E second \in GetLogsReplies :
                      IF first.ok
                      THEN Call(first, None, second)
                      ELSE IF second.ok
                              /\ SelectSeq(second.logs, log_matches_head_updated) = <<>>
                      THEN \E third \in GetLogsReplies : Call(first, second, third)
                      ELSE Call(first, second, None)
    /\ UNCHANGED otherThanFn

\* run_once, lines 293-320: one eth_subscription message carrying `log`
subscription_log(needs_client_filter, log) ==
    IF needs_client_filter /\ log.address # "contract" THEN "continue"
    ELSE IF needs_client_filter /\ ~log_matches_head_updated(log) THEN "continue"
    ELSE IF decodes(log) THEN "publish"
    ELSE "err"

\* one message of the subscription, on a subscription made with the filter
\* (needs_client_filter = false: logs of the contract) or without any
SubscriptionLogCall(needs_client_filter, log) ==
    /\ fnCall = <<>>
    /\ needs_client_filter \/ log.address = "contract"
    /\ fnCall' = << [fn |-> "subscription_log", needs_client_filter |-> needs_client_filter,
                     log |-> log,
                     result |-> subscription_log(needs_client_filter, log)] >>
    /\ UNCHANGED otherThanFn

after_cycle_propagate(result) == IF result = "ok" THEN "sleep" ELSE "returned"

\* run(): `match run_once(..).await`, both arms sleep and the loop goes on
after_cycle(result) == "sleep"

NoneMet == [error |-> "none", bad_log |-> "none"]

\* before StemIndexer::new
IdxInit ==
    /\ start_block = 0
    /\ overflow_checks = FALSE
    /\ cursor = 0
    /\ ipc = "new"
    /\ from_block = 0
    /\ run_tip = 0
    /\ bfFrom = 0
    /\ bfTo = 0
    /\ observed = <<>>
    /\ current_head = <<>>
    /\ lastSent = <<>>
    /\ lastCycle = "none"
    /\ met = NoneMet
    /\ sentHist = [in_cycle |-> FALSE, in_window |-> FALSE]
    /\ missed = <<>>

\* StemIndexer::new(config) and the first lines of run(), lines 130-154, in a
\* build with or without overflow checks
RunBegin(sb, checks) ==
    /\ ipc = "new"
    /\ start_block' = sb
    /\ overflow_checks' = checks
    /\ cursor' = saturating_sub(sb, 1)
    /\ ipc' = "start"
    /\ UNCHANGED <<from_block, run_tip, bfFrom, bfTo, observed, current_head, lastSent,
                   lastCycle, met, sentHist>>
    /\ UNCHANGED missed
    /\ UNCHANGED otherThanIdx

\* run_once returns `result`: its locals are dropped
EndCycle(result) ==
    /\ ipc' = after_cycle(result)
    /\ lastCycle' = result
    /\ from_block' = 0
    /\ run_tip' = 0
    /\ bfFrom' = 0
    /\ bfTo' = 0
    /\ observed' = <<>>

\* event_tx.send(o) followed by set_current_head_if_newer
Publish(o) ==
    /\ lastSent' = <<o>>
    /\ current_head' = set_current_head_if_newer(current_head, [seq |-> o.seq, cid |-> o.cid])
    /\ sentHist' = [in_cycle |-> TRUE, in_window |-> TRUE]

\* run_once, line 186: let from_block = cursor.last_processed_block + 1
RunOnceBegin ==
    /\ ipc = "start"
    /\ LET r == add_u64(cursor, 1)
       IN  IF r.panic
           THEN /\ ipc' = "panicked"
                /\ UNCHANGED from_block
           ELSE /\ ipc' = "tip"
                /\ from_block' = r.value
    /\ sentHist' = [sentHist EXCEPT !.in_cycle = FALSE]
    /\ met' = NoneMet
    /\ UNCHANGED <<start_block, overflow_checks, cursor, run_tip, bfFrom, bfTo, observed,
                   current_head, lastSent, lastCycle>>
    /\ UNCHANGED missed
    /\ UNCHANGED otherThanIdx

\* eth_blockNumber fails: `?`
TipFails ==
    /\ ipc = "tip"
    /\ EndCycle("err")
    /\ met' = [error |-> "tip", bad_log |-> "none"]
    /\ UNCHANGED <<start_block, overflow_checks, cursor, current_head, lastSent, sentHist>>
    /\ UNCHANGED missed
    /\ UNCHANGED otherThanIdx

\* eth_blockNumber answers t: lines 187-188 and the entry of backfill
TipReply(t) ==
    /\ ipc = "tip"
    /\ run_tip' = t
    /\ IF from_block <= t
       THEN ipc' = "backfill" /\ bfFrom' = from_block
       ELSE ipc' = "connect" /\ bfFrom' = 0
    /\ met' = NoneMet
    /\ UNCHANGED <<start_block, overflow_checks, cursor, from_block, bfTo, observed,
                   current_head, lastSent, lastCycle, sentHist>>
    /\ UNCHANGED missed
    /\ UNCHANGED otherThanIdx

\* backfill, lines 363-411: the slice's bounds, its eth_get_logs calls (the
\* topic-filtered one, then the address-only fallbacks), decoding and the sort
BackfillFetch ==
    /\ ipc = "backfill"
    /\ bfFrom <= run_tip
    /\ LET sum == add_u64(bfFrom, GetlogsMaxRange)
           end == sub_u64(sum.value, 1)
           to == Min(end.value, run_tip)
           Proceed(logs, swallowed) ==
               /\ observed' = sort_by_key(filter_map_decode(logs))
               /\ bfTo' = to
               /\ ipc' = "publish"
               /\ met' = [error |-> IF swallowed THEN "getlogs" ELSE "none",
                          bad_log |-> IF HasGarbage(logs) THEN "backfill" ELSE "none"]
               /\ UNCHANGED <<from_block, run_tip, bfFrom, lastCycle>>
           Fail ==
               /\ EndCycle("err")
               /\ met' = [error |-> "getlogs", bad_log |-> "none"]
       IN  IF sum.panic \/ end.panic
           THEN /\ ipc' = "panicked"
                /\ met' = NoneMet
                /\ UNCHANGED <<from_block, run_tip, bfFrom, bfTo, observed, lastCycle>>
           ELSE \E first \in GetLogsResults(bfFrom, to) :
                   IF first.ok /\ first.logs # <<>>
                   THEN Proceed(first.logs, FALSE)
                   ELSE \E second \in GetLogsResults(bfFrom, to) :
                           IF first.ok
                           THEN Proceed(IF second.ok THEN second.logs ELSE <<>>, ~second.ok)
                           ELSE IF ~second.ok
                           THEN Fail
                           ELSE IF second.logs # <<>>
                           THEN Proceed(second.logs, TRUE)
                           ELSE \E third \in GetLogsResults(bfFrom, to) :
                                   Proceed(IF third.ok THEN third.logs ELSE <<>>, TRUE)
    /\ UNCHANGED <<start_block, overflow_checks, cursor, current_head, lastSent, sentHist>>
    /\ missed' = IF missed # <<>> /\ bfFrom <= missed[1] /\ missed[1] <= bfTo' /\ ipc' = "publish"
                 THEN <<>> ELSE missed
    /\ UNCHANGED otherThanIdx

\* backfill, lines 412-423: one iteration of `for o in observed`
BackfillPublish ==
    /\ ipc = "publish"
    /\ observed # <<>>
    /\ Publish(Head(observed))
    /\ observed' = Tail(observed)
    /\ met' = NoneMet
    /\ UNCHANGED <<start_block, overflow_checks, cursor, ipc, from_block, run_tip, bfFrom,
                   bfTo, lastCycle>>
    /\ UNCHANGED missed
    /\ UNCHANGED otherThanIdx

\* backfill, line 425: from = to + 1
BackfillNext ==
    /\ ipc = "publish"
    /\ observed = <<>>
    /\ LET nxt == add_u64(bfTo, 1)
       IN  IF nxt.panic
           THEN ipc' = "panicked" /\ UNCHANGED bfFrom
           ELSE ipc' = "backfill" /\ bfFrom' = nxt.value
    /\ bfTo' = 0
    /\ met' = NoneMet
    /\ UNCHANGED <<start_block, overflow_checks, cursor, from_block, run_tip, observed,
                   current_head, lastSent, lastCycle, sentHist>>
    /\ UNCHANGED missed
    /\ UNCHANGED otherThanIdx

\* backfill returns Ok: line 199, cursor.last_processed_block = tip
BackfillDone ==
    /\ ipc = "backfill"
    /\ bfFrom > run_tip
    /\ cursor' = run_tip
    /\ ipc' = "connect"
    /\ bfFrom' = 0
    /\ met' = NoneMet
    /\ UNCHANGED <<start_block, overflow_checks, from_block, run_tip, bfTo, observed,
                   current_head, lastSent, lastCycle, sentHist>>
    /\ UNCHANGED missed
    /\ UNCHANGED otherThanIdx

\* connect_async or the eth_subscribe handshake fails, lines 206-268
ConnectFails ==
    /\ ipc = "connect"
    /\ EndCycle("err")
    /\ met' = [error |-> "connect", bad_log |-> "none"]
    /\ UNCHANGED <<start_block, overflow_checks, cursor, current_head, lastSent, sentHist>>
    /\ UNCHANGED missed
    /\ UNCHANGED otherThanIdx

\* the subscription is open
Connected ==
    /\ ipc = "connect"
    /\ ipc' = "head"
    /\ sentHist' = [sentHist EXCEPT !.in_window = FALSE]
    /\ met' = NoneMet
    /\ UNCHANGED <<start_block, overflow_checks, cursor, from_block, run_tip, bfFrom, bfTo,
                   observed, current_head, lastSent, lastCycle>>
    /\ UNCHANGED missed
    /\ UNCHANGED otherThanIdx

\* fetch_and_set_head: eth_call or decode_head_return fails, logged, `return`
FetchHeadFails ==
    /\ ipc = "head"
    /\ ipc' = "stream"
    /\ met' = [error |-> "head", bad_log |-> "none"]
    /\ UNCHANGED <<start_block, overflow_checks, cursor, from_block, run_tip, bfFrom, bfTo,
                   observed, current_head, lastSent, lastCycle, sentHist>>
    /\ UNCHANGED missed
    /\ UNCHANGED otherThanIdx

\* fetch_and_set_head: head() answers h
FetchHead(h) ==
    /\ ipc = "head"
    /\ current_head' = set_current_head_if_newer(current_head, h)
    /\ ipc' = "stream"
    /\ met' = NoneMet
    /\ UNCHANGED <<start_block, overflow_checks, cursor, from_block, run_tip, bfFrom, bfTo,
                   observed, lastSent, lastCycle, sentHist>>
    /\ UNCHANGED missed
    /\ UNCHANGED otherThanIdx

\* the stream yields a log of the contract that decodes: lines 320-330
StreamLog(ev) ==
    /\ ipc = "stream"
    /\ cursor' = cursor_after_log(cursor, ev.block_number)
    /\ Publish(ev)
    /\ met' = NoneMet
    /\ UNCHANGED <<start_block, overflow_checks, ipc, from_block, run_tip, bfFrom, bfTo,
                   observed, lastCycle>>
    /\ missed' = IF missed = <<ev.block_number>> THEN <<>> ELSE missed
    /\ UNCHANGED otherThanIdx

\* the stream yields a message that is passed over: `continue`
StreamSkip ==
    /\ ipc = "stream"
    /\ met' = NoneMet
    /\ UNCHANGED <<start_block, overflow_checks, cursor, ipc, from_block, run_tip, bfFrom,
                   bfTo, observed, current_head, lastSent, lastCycle, sentHist>>
    /\ UNCHANGED missed
    /\ UNCHANGED otherThanIdx

\* the stream yields a log that decode_log_to_observed rejects: line 320, `?`
StreamUndecodable ==
    /\ ipc = "stream"
    /\ EndCycle("err")
    /\ met' = [error |-> "decode", bad_log |-> "subscription"]
    /\ UNCHANGED <<start_block, overflow_checks, cursor, current_head, lastSent, sentHist>>
    /\ UNCHANGED missed
    /\ UNCHANGED otherThanIdx

\* the stream yields a ws error, unparsable text or no params.result: `?`
StreamError ==
    /\ ipc = "stream"
    /\ EndCycle("err")
    /\ met' = [error |-> "stream", bad_log |-> "none"]
    /\ UNCHANGED <<start_block, overflow_checks, cursor, current_head, lastSent, sentHist>>
    /\ UNCHANGED missed
    /\ UNCHANGED otherThanIdx

\* Message::Close or the end of the stream: Ok(())
StreamClose ==
    /\ ipc = "stream"
    /\ EndCycle("ok")
    /\ met' = NoneMet
    /\ UNCHANGED <<start_block, overflow_checks, cursor, current_head, lastSent, sentHist>>
    /\ UNCHANGED missed
    /\ UNCHANGED otherThanIdx

\* run(): the sleep after run_once ends, then the next iteration of `loop`
Wake ==
    /\ ipc = "sleep"
    /\ ipc' = "start"
    /\ met' = NoneMet
    /\ start_block' = 0
    /\ UNCHANGED <<overflow_checks, cursor, from_block, run_tip, bfFrom, bfTo,
                   observed, current_head, lastSent, lastCycle, sentHist>>
    /\ UNCHANGED missed
    /\ UNCHANGED otherThanIdx

\* the chain grows while a cycle is between its tip read and its open
\* subscription: a block above the tip is mined that holds a decodable
\* HeadUpdated log.  The backfill of this cycle ends at the tip and the
\* subscription reports the logs of blocks mined once it is active.  The block
\* is above the cursor, hence not below start_block.
MineInWindow(b) ==
    /\ ipc \in {"backfill", "publish", "connect"}
    /\ missed = <<>>
    /\ b > run_tip
    /\ b > cursor
    /\ missed' = <<b>>
    /\ UNCHANGED <<start_block, overflow_checks, cursor, ipc, from_block, run_tip, bfFrom,
                   bfTo, observed, current_head, lastSent, lastCycle, met, sentHist>>
    /\ UNCHANGED otherThanIdx

(***************************************************************************)
(* The broadcast channel between the indexer and its subscribers           *)
(* (indexer.rs:129-142): a ring of BroadcastCapacity slots; a sender that  *)
(* overwrites the oldest slot; receivers that each keep their own position.*)
(***************************************************************************)
\* broadcast::channel(256), scaled
BroadcastCapacity == 2
MaxSends == 4
MaxSubscribers == 2

Subscribers == 1..MaxSubscribers

\* StemIndexer::new: the channel is empty and its first receiver is dropped
BcInit ==
    /\ bcCount = 0
    /\ bcTail = 0
    /\ bcBuf = [i \in 0..(BroadcastCapacity - 1) |-> <<>>]
    /\ bcRx = [r \in Subscribers |-> <<>>]

\* subscribe(): a new receiver that starts at the sender's position
BcSubscribe(r) ==
    /\ bcRx[r] = <<>>
    /\ bcRx' = [bcRx EXCEPT ![r] = << [next |-> bcTail, got |-> <<>>] >>]
    /\ UNCHANGED <<bcCount, bcTail, bcBuf>>
    /\ UNCHANGED otherThanBc

\* event_tx.send(o): with no receiver the value is dropped and the result is
\* ignored; otherwise it is stored in slot pos % capacity
BcSend ==
    /\ bcCount < MaxSends
    /\ bcCount' = bcCount + 1
    /\ IF \A r \in Subscribers : bcRx[r] = <<>>
       THEN UNCHANGED <<bcTail, bcBuf>>
       ELSE /\ bcBuf' = [bcBuf EXCEPT ![bcTail % BroadcastCapacity] =
                            << [pos |-> bcTail, val |-> bcCount + 1] >>]
            /\ bcTail' = bcTail + 1
    /\ UNCHANGED bcRx
    /\ UNCHANGED otherThanBc

\* what recv() finds in the receiver's slot
recv_slot_unchecked(buf, next, tail) ==
    LET slot == buf[next % BroadcastCapacity]
    IN  IF slot = <<>> THEN [kind |-> "empty"]
        ELSE [kind |-> "value", val |-> slot[1].val]
recv_slot(buf, next, tail) ==
    LET slot == buf[next % BroadcastCapacity]
    IN  IF next = tail THEN [kind |-> "empty"]
        ELSE IF slot[1].pos = next THEN [kind |-> "value", val |-> slot[1].val]
        ELSE [kind |-> "lagged", next |-> tail - BroadcastCapacity]

\* rx.recv() returns: a value, or Lagged after which the receiver stands at
\* the oldest value still stored
BcRecv(r) ==
    /\ bcRx[r] # <<>>
    /\ LET me == bcRx[r][1]
           got == recv_slot(bcBuf, me.next, bcTail)
       IN  /\ got.kind # "empty"
           /\ bcRx' = [bcRx EXCEPT ![r] =
                          IF got.kind = "value"
                          THEN << [next |-> me.next + 1, got |-> Append(me.got, got.val)] >>
                          ELSE << [next |-> got.next, got |-> me.got] >>]
    /\ UNCHANGED <<bcCount, bcTail, bcBuf>>
    /\ UNCHANGED otherThanBc

BcNext ==
    \/ \E r \in Subscribers : BcSubscribe(r)
    \/ BcSend
    \/ \E r \in Subscribers : BcRecv(r)

\* one iteration of backfill's `while from <= to_block`, lines 362-363 and
\* 425, for any max_range, in a build with or without overflow checks:
\* to = (from + max_range - 1).min(to_block), then from = to + 1
backfill_iteration(from, to_block, max_range, checks) ==
    LET sum == from + max_range
        end == (sum % (U64Max + 1)) - 1
        to == Min(end % (U64Max + 1), to_block)
        nxt == to + 1
    IN  [panic |-> checks /\ (sum > U64Max \/ end < 0 \/ nxt > U64Max),
         to |-> to,
         from |-> nxt % (U64Max + 1)]

BackfillIterationCall(from, to_block, max_range, checks) ==
    /\ fnCall = <<>>
    /\ from <= to_block
    /\ fnCall' = << [fn |-> "backfill_iteration", from |-> from, to_block |-> to_block,
                     max_range |-> max_range, checks |-> checks,
                     result |-> backfill_iteration(from, to_block, max_range, checks)] >>
    /\ UNCHANGED otherThanFn

(***************************************************************************)
(* TrieRoot v0 validation (crates/stem/src/trie.rs).  The input is what    *)
(* ciborium::de::from_reader gives for the bytes: a decode error or a      *)
(* Value; a Value::Map is a list of (key, value) pairs in input order.     *)
(***************************************************************************)
VInteger(i) == [kind |-> "Integer", int |-> i, bytes |-> <<>>, text |-> ""]
VBytes(b) == [kind |-> "Bytes", int |-> 0, bytes |-> b, text |-> ""]
VText(t) == [kind |-> "Text", int |-> 0, bytes |-> <<>>, text |-> t]
VNull == [kind |-> "Null", int |-> 0, bytes |-> <<>>, text |-> ""]
\* a nested map or array: its content is never read
VOpaque(k) == [kind |-> k, int |-> 0, bytes |-> <<>>, text |-> ""]

\* str::as_bytes: the UTF-8 encoding of the text
as_bytes(t) ==
    CASE t = "" -> <<>>
      [] t = "Qm" -> <<81, 109>>
      [] t = "\\u00e9" -> <<195, 169>>
      [] OTHER -> <<63>>

\* `x as u64` of an i128
as_u64(x) == x % (U64Max + 1)

TrieInts == {-1, 0, 1}
TrieValues ==
    { VInteger(i) : i \in TrieInts } \cup { VBytes(<<1, 113>>), VText("Qm"), VNull }

RequiredKeys == <<"schema", "fanout", "root", "size">>

\* zero or one entry for a key
EntriesFor(key, values) ==
    { <<>> } \cup { << [key |-> VText(key), value |-> v] >> : v \in values }

\* one more entry: a repeated required key, or a key that is not a text
ExtraEntries ==
    { [key |-> k, value |-> v] :
        k \in { VText("schema"), VText("size"), VInteger(0) },
        v \in { VInteger(0), VNull } }

\* lookup.get(key): the BTreeMap collected from the text-keyed entries keeps,
\* for a key that occurs more than once, the entry inserted last
get(map, key) ==
    LET at == { i \in DOMAIN map : map[i].key.kind = "Text" /\ map[i].key.text = key }
    IN  IF at = {} THEN <<>>
        ELSE << map[CHOOSE i \in at : \A j \in at : j <= i].value >>

\* as_i128
as_i128(v) == IF v.kind = "Integer" THEN <<v.int>> ELSE <<>>

TrieErr(tag, key, expected, got) ==
    [ok |-> FALSE, err |-> [tag |-> tag, key |-> key, expected |-> expected, got |-> got],
     fanout |-> 0, root |-> <<>>, size |-> 0]

fanout_nonnegative(fanout) == fanout >= 0

\* the fanout check passes: not `fanout <= 0`
fanout_positive(fanout) == fanout > 0

\* validate_trie_root_v0 after from_reader: decoded is "error" or <<value>>
validate_trie_root_v0(decoded) ==
    IF decoded = <<>> THEN TrieErr("Decode", "", "", 0)
    ELSE IF decoded[1].kind # "Map" THEN TrieErr("NotAMap", "", "", 0)
    ELSE
    LET map == decoded[1].entries
        schema_val == get(map, "schema")
        fanout_val == get(map, "fanout")
        root_val == get(map, "root")
        size_val == get(map, "size")
    IN  IF schema_val = <<>> THEN TrieErr("MissingKey", "schema", "", 0)
        ELSE IF as_i128(schema_val[1]) = <<>> THEN TrieErr("WrongType", "schema", "integer", 0)
        ELSE IF as_i128(schema_val[1])[1] # 0
             THEN TrieErr("WrongSchema", "", "", as_i128(schema_val[1])[1])
        ELSE IF fanout_val = <<>> THEN TrieErr("MissingKey", "fanout", "", 0)
        ELSE IF as_i128(fanout_val[1]) = <<>> THEN TrieErr("WrongType", "fanout", "integer", 0)
        ELSE IF ~fanout_positive(as_i128(fanout_val[1])[1])
             THEN TrieErr("InvalidFanout", "", "", as_i128(fanout_val[1])[1])
        ELSE IF root_val = <<>> THEN TrieErr("MissingKey", "root", "", 0)
        ELSE IF root_val[1].kind \notin {"Bytes", "Text"}
             THEN TrieErr("WrongType", "root", "bytes or string", 0)
        ELSE IF size_val = <<>> THEN TrieErr("MissingKey", "size", "", 0)
        ELSE IF as_i128(size_val[1]) = <<>> THEN TrieErr("WrongType", "size", "integer", 0)
        ELSE IF as_i128(size_val[1])[1] < 0
             THEN TrieErr("InvalidSize", "", "", as_i128(size_val[1])[1])
        ELSE [ok |-> TRUE, err |-> [tag |-> "", key |-> "", expected |-> "", got |-> 0],
              fanout |-> as_u64(as_i128(fanout_val[1])[1]),
              root |-> IF root_val[1].kind = "Bytes" THEN root_val[1].bytes
                       ELSE as_bytes(root_val[1].text),
              size |-> as_u64(as_i128(size_val[1])[1])]

\* what from_reader gives when it is not a map: an error or another value
TrieNonMaps ==
    { <<>> } \cup { << [kind |-> v.kind, entries |-> <<>>] >> :
                        v \in TrieValues \cup { VOpaque("Array") } }

ValidateCalls(decoded) ==
    fnCall' = << [fn |-> "validate_trie_root_v0", decoded |-> decoded,
                  result |-> validate_trie_root_v0(decoded)] >>

\* validate_trie_root_v0 on what from_reader gives: not a map, or a map with
\* each required key absent or present, a meta, and one more entry before or
\* after them
ValidateCall ==
    /\ fnCall = <<>>
    /\ \/ \E decoded \in TrieNonMaps : ValidateCalls(decoded)
       \/ \E schema \in EntriesFor("schema", TrieValues),
             fanout \in EntriesFor("fanout", TrieValues) :
          \E root \in EntriesFor("root", TrieValues),
             size \in EntriesFor("size", TrieValues) :
          \E meta \in EntriesFor("meta", { VInteger(1) }),
             extra \in { <<>> } \cup { <<e>> : e \in ExtraEntries },
             at_end \in BOOLEAN :
                ValidateCalls(<< [kind |-> "Map",
                                  entries |-> IF at_end
                                              THEN schema \o fanout \o root \o size \o meta \o extra
                                              ELSE extra \o schema \o fanout \o root \o size \o meta] >>)
    /\ UNCHANGED otherThanFn

(***************************************************************************)
(* The current_head lock: Arc<RwLock<Option<CurrentHead>>>, written by the *)
(* run task (fetch_and_set_head, set_current_head_if_newer) and read by    *)
(* current_head() callers.  The lock serves its waiters oldest first.      *)
(***************************************************************************)
MaxReaders == 2
Readers == 1..MaxReaders

LkInit ==
    /\ lkWriter = FALSE
    /\ lkReaders = {}
    /\ lkQueue = <<>>
    /\ lkHead = <<>>
    /\ upc = "idle"
    /\ ucand = <<>>
    /\ rdpc = [r \in Readers |-> "idle"]

\* fetch_and_set_head is entered: eth_call is in progress, lines 452-458
UpdCallHead ==
    /\ upc = "idle"
    /\ upc' = "rpc"
    /\ UNCHANGED <<lkWriter, lkReaders, lkQueue, lkHead, ucand, rdpc>>
    /\ UNCHANGED otherThanLk

\* eth_call or decode_head_return fails: `return`, lines 454-465
UpdCallFails ==
    /\ upc = "rpc"
    /\ upc' = "idle"
    /\ UNCHANGED <<lkWriter, lkReaders, lkQueue, lkHead, ucand, rdpc>>
    /\ UNCHANGED otherThanLk

\* the candidate is there (head() answered and decoded, or an event was
\* decoded and sent): set_current_head_if_newer asks for the write guard
UpdAskWrite(h) ==
    /\ upc \in {"idle", "rpc"}
    /\ ucand' = <<h>>
    /\ upc' = "waiting"
    /\ lkQueue' = Append(lkQueue, 0)
    /\ UNCHANGED <<lkWriter, lkReaders, lkHead, rdpc>>
    /\ UNCHANGED otherThanLk

\* current_head(): self.current_head.read().await
RdAsk(r) ==
    /\ rdpc[r] = "idle"
    /\ rdpc' = [rdpc EXCEPT ![r] = "waiting"]
    /\ lkQueue' = Append(lkQueue, r)
    /\ UNCHANGED <<lkWriter, lkReaders, lkHead, upc, ucand>>
    /\ UNCHANGED otherThanLk

\* the lock is given to its oldest waiter: the write guard when nobody holds
\* the lock, a read guard when no writer holds it
Grant ==
    /\ lkQueue # <<>>
    /\ ~lkWriter
    /\ IF Head(lkQueue) = 0
       THEN /\ lkReaders = {}
            /\ lkWriter' = TRUE
            /\ upc' = "locked"
            /\ UNCHANGED <<lkReaders, rdpc>>
       ELSE /\ lkReaders' = lkReaders \cup {Head(lkQueue)}
            /\ rdpc' = [rdpc EXCEPT ![Head(lkQueue)] = "holding"]
            /\ UNCHANGED <<lkWriter, upc>>
    /\ lkQueue' = Tail(lkQueue)
    /\ UNCHANGED <<lkHead, ucand>>
    /\ UNCHANGED otherThanLk

\* whether the write guard is still held when set_current_head_if_newer returns
guard_kept(held) == held
guard_dropped(held) == FALSE

\* set_current_head_if_newer with the guard: compare, assign, return, lines 435-442
UpdWrite ==
    /\ upc = "locked"
    /\ lkHead' = set_current_head_if_newer(lkHead, ucand[1])
    /\ lkWriter' = guard_dropped(lkWriter)
    /\ upc' = "idle"
    /\ ucand' = <<>>
    /\ UNCHANGED <<lkReaders, lkQueue, rdpc>>
    /\ UNCHANGED otherThanLk

\* current_head(): .clone() and the read guard is dropped
RdReturn(r) ==
    /\ rdpc[r] = "holding"
    /\ rdpc' = [rdpc EXCEPT ![r] = "idle"]
    /\ lkReaders' = lkReaders \ {r}
    /\ UNCHANGED <<lkWriter, lkQueue, lkHead, upc, ucand>>
    /\ UNCHANGED otherThanLk

LkNext ==
    \/ UpdCallHead
    \/ UpdCallFails
    \/ \E h \in IndexerHeads : UpdAskWrite(h)
    \/ \E r \in Readers : RdAsk(r)
    \/ Grant
    \/ UpdWrite
    \/ \E r \in Readers : RdReturn(r)

(***************************************************************************)
(* Watcher (crates/stem/src/membrane.rs): WatcherServer over a clone of    *)
(* the membrane's watch::Receiver<Epoch>.  The channel counts its sends in *)
(* a version; a receiver remembers the version it has seen, a clone starts *)
(* with the version of the receiver it was cloned from, and changed()      *)
(* marks as seen only the receiver it is called on.                        *)
(***************************************************************************)
\* number of sends on the epoch channel in one behaviour
MaxEpochSends == 3
MaxWatchers == 2
WatcherIds == 1..MaxWatchers

\* watch::Receiver::clone: the clone has seen what the original has seen
receiver_clone(seen) == seen

\* watch::Receiver::changed is ready: a version this receiver has not seen
changed_ready(seen, version) == seen # version

\* MembraneServer.receiver is the receiver of watch::channel(init): it has
\* seen the initial version, and only borrow() is ever called on it
WtInit ==
    /\ epochChan = [version |-> 0, value |-> InitEpoch, closed |-> FALSE, membrane_seen |-> 0]
    /\ watchers = [w \in WatcherIds |-> <<>>]
    /\ lastNext = <<>>

\* watch::Sender::send
EpochSend(e) ==
    /\ ~epochChan.closed
    /\ epochChan.version < MaxEpochSends
    /\ epochChan' = [epochChan EXCEPT !.version = @ + 1, !.value = e]
    /\ lastNext' = <<>>
    /\ UNCHANGED watchers
    /\ UNCHANGED otherThanWt

\* the Sender is dropped
EpochSenderDropped ==
    /\ ~epochChan.closed
    /\ epochChan' = [epochChan EXCEPT !.closed = TRUE]
    /\ lastNext' = <<>>
    /\ UNCHANGED watchers
    /\ UNCHANGED otherThanWt

\* MembraneServer::watch_epoch: WatcherServer { receiver: self.receiver.clone() }
watch_epoch(w) ==
    /\ watchers[w] = <<>>
    /\ watchers' = [watchers EXCEPT ![w] =
                      << [seen |-> receiver_clone(epochChan.membrane_seen),
                          pc |-> "idle",
                          local |-> 0,
                          mark |-> epochChan.version] >>]
    /\ lastNext' = <<>>
    /\ UNCHANGED epochChan
    /\ UNCHANGED otherThanWt

\* WatcherServer::next, lines 101-102: clone self.receiver, wait on the clone
NextCall(w) ==
    /\ watchers[w] # <<>>
    /\ watchers[w][1].pc = "idle"
    /\ watchers' = [watchers EXCEPT ![w] =
                      << [watchers[w][1] EXCEPT
                            !.pc = "changed",
                            !.local = receiver_clone(watchers[w][1].seen)] >>]
    /\ lastNext' = <<>>
    /\ UNCHANGED epochChan
    /\ UNCHANGED otherThanWt

\* WatcherServer::next, lines 102-112: changed() is over, Ok with the
\* borrowed epoch or Err when the channel is closed; the clone is dropped
NextReturn(w) ==
    /\ watchers[w] # <<>>
    /\ watchers[w][1].pc = "changed"
    /\ changed_ready(watchers[w][1].local, epochChan.version) \/ epochChan.closed
    /\ lastNext' =
         << [watcher |-> w,
             ok |-> changed_ready(watchers[w][1].local, epochChan.version),
             epoch |-> fill_epoch_builder(epochChan.value).built,
             channel_value |-> epochChan.value,
             sends_since |-> epochChan.version - watchers[w][1].mark] >>
    /\ watchers' = [watchers EXCEPT ![w] =
                      << [watchers[w][1] EXCEPT
                            !.pc = "idle", !.mark = epochChan.version] >>]
    /\ UNCHANGED epochChan
    /\ UNCHANGED otherThanWt

WtNext ==
    \/ \E e \in Epochs : EpochSend(e)
    \/ EpochSenderDropped
    \/ \E w \in WatcherIds : watch_epoch(w)
    \/ \E w \in WatcherIds : NextCall(w)
    \/ \E w \in WatcherIds : NextReturn(w)

(***************************************************************************)
(* Specifications.                                                         *)
(***************************************************************************)
Init == FinInit /\ MemInit /\ IdxInit /\ FnInit /\ BcInit /\ LkInit /\ WtInit

FinNext ==
    \/ \E h \in Heads : SetHead(h)
    \/ \E ev \in HeadUpdatedObserved : Feed(ev)
    \/ \E tip \in U64 : DrainStart(tip)
    \/ DrainStep
    \/ DrainFinish

MemNext ==
    \/ \E e \in Epochs : Send(e)
    \/ GraftRead
    \/ GraftMint
    \/ \E s \in sessions : Poll(s)

IdxNext ==
    \/ \E sb \in U64, checks \in BOOLEAN : RunBegin(sb, checks)
    \/ RunOnceBegin
    \/ TipFails
    \/ \E t \in U64 : TipReply(t)
    \/ BackfillFetch
    \/ BackfillPublish
    \/ BackfillNext
    \/ BackfillDone
    \/ ConnectFails
    \/ Connected
    \/ FetchHeadFails
    \/ \E h \in IndexerHeads : FetchHead(h)
    \/ \E ev \in IndexerEvents : StreamLog(ev)
    \/ StreamSkip
    \/ StreamUndecodable
    \/ StreamError
    \/ StreamClose
    \/ Wake

\* the same transactions' logs as a branch that is orphaned later holds them:
\* at another position in the block
Reobserved == { [ev EXCEPT !.log_index = 1] : ev \in HeadUpdatedObserved }

\* the finalizer fed by an indexer that follows the chain through a reorg
ReorgNext ==
    \/ \E h \in Heads : SetHead(h)
    \/ \E ev \in HeadUpdatedObserved \cup Reobserved : Feed(ev)
    \/ \E tip \in U64 : DrainStart(tip)
    \/ DrainStep
    \/ DrainFinish

\* the indexer and a chain that grows during a cycle
GapNext ==
    \/ IdxNext
    \/ \E b \in U64 : MineInWindow(b)

MaxKeep == 4 * WordLen + MaxCidLen + WordLen

\* the arguments of a call: a behaviour makes one call, so there is none to
\* choose once a call is recorded
Args(S) == IF fnCall = <<>> THEN S ELSE {}

FnNext ==
    \/ \E k \in Args(U64), ev \in StrategyEvents, tip \in U64 : IsEligibleCall(k, ev, tip)
    \/ \E layout \in Args(HeadLayouts), seq \in U64, cid \in AbiCids,
          big \in BOOLEAN, keep \in 0..MaxKeep :
            DecodeHeadCall(layout, seq, cid, big, keep)
    \/ \E layout \in Args(HeadLayouts), cid \in AbiCids, big \in BOOLEAN, keep \in 0..MaxKeep :
            DecodeEventCall(layout, cid, big, keep)
    \/ \E b \in Args(BuilderStates), client_ok \in BOOLEAN : BuildCall(b, client_ok)
    \/ \E result \in Args({"ok", "err"}), initial \in U64, max \in U64, jitter \in Jitters :
            BackoffCall(result, initial, max, jitter)
    \/ \E n \in Args(1..MaxCandidates) : \E cands \in CandidateSeqs(n) : FoldCall(cands)
    \/ SliceFilterCall
    \/ \E needs_client_filter \in Args(BOOLEAN), log \in DeliveredLogs :
            SubscriptionLogCall(needs_client_filter, log)
    \/ ValidateCall
    \/ \E from \in Args(U64), to_block \in U64, max_range \in U64, checks \in BOOLEAN :
            BackfillIterationCall(from, to_block, max_range, checks)

Next == FinNext \/ ReorgNext \/ MemNext \/ GapNext \/ FnNext \/ BcNext \/ LkNext \/ WtNext

SpecFinalizer == Init /\ [][FinNext]_vars

SpecReorg == Init /\ [][ReorgNext]_vars

SpecMembrane == Init /\ [][MemNext]_vars

SpecIndexer == Init /\ [][IdxNext]_vars

SpecGap == Init /\ [][GapNext]_vars

SpecFunctions == Init /\ [][FnNext]_vars

SpecBroadcast == Init /\ [][BcNext]_vars

SpecWatcher == Init /\ [][WtNext]_vars

\* the lock with its scheduling: a waiter that can be served is served, and a
\* task that holds a guard runs on to the point where it drops it; nothing is
\* assumed of the RPC calls or of when tasks ask for the lock
SpecLock ==
    /\ Init /\ [][LkNext]_vars
    /\ WF_vars(Grant)
    /\ WF_vars(UpdWrite)
    /\ \A r \in Readers : WF_vars(RdReturn(r))

Spec == Init /\ [][Next]_vars

DrainedKeys == { <<drained[i].fe.tx_hash_hex, drained[i].fe.log_index>> : i \in DOMAIN drained }

OutputKey(ev) == <<hex_encode(ev.tx_hash), ev.log_index>>

(***************************************************************************)
(* Finalizer claims.                                                       *)
(***************************************************************************)
\* C1: each (tx_hash, log_index) appears at most once in the concatenation of
\* all drain_eligible outputs, also when the same log is fed several times.
C1_AtMostOncePerLog ==
    \A i, j \in DOMAIN drained :
        i # j => <<drained[i].fe.tx_hash_hex, drained[i].fe.log_index>>
                 # <<drained[j].fe.tx_hash_hex, drained[j].fe.log_index>>

\* a log was fed a second time, every copy has been drained, and it was output
C1_Witness ==
    /\ fpc = "idle"
    /\ pending = <<>>
    /\ \E e \in DOMAIN fed : fed[e].again /\ OutputKey(e) \in DrainedKeys

\* C2: every output event carries the (seq, cid) that the head() call made for
\* it returned; an event whose head() answer differs is not output.
C2_OutputMatchesCanonicalHead ==
    \A i \in DOMAIN drained :
        /\ drained[i].fe.seq = drained[i].head.seq
        /\ drained[i].fe.cid = drained[i].head.cid

\* a drain has visited an eligible event while head() reported the same seq
\* with another cid, and has not output it
C2_Witness ==
    /\ fpc = "draining"
    /\ eligible = <<>>
    /\ out = <<>>
    /\ Len(pendingBefore) = 1
    /\ pending = <<>>
    /\ dedup_key(pendingBefore[1]) \notin emitted
    /\ chainHead.seq = pendingBefore[1].seq
    /\ chainHead.cid # pendingBefore[1].cid

\* C3 (as claimed): an event at block B that has been fed, with head() equal to
\* its (seq, cid) ever since, is in some output once a drain_eligible call with
\* tip >= B + K + 1 has returned.
C3_DeepCanonicalEventIsOutput ==
    \A e \in DOMAIN fed :
        fed[e].stable /\ fed[e].deep => OutputKey(e) \in DrainedKeys

\* C4 (as claimed): after drain_eligible has returned an error, every event that
\* was pending when it was called, has not been output and is what head() now
\* reports is still pending, so that a retry can output it.
C4_FailedDrainLosesNothing ==
    lastDrain = "err" /\ fpc = "idle" =>
        \A i \in DOMAIN pendingBefore :
            /\ OutputKey(pendingBefore[i]) \notin DrainedKeys
            /\ chainHead = HeadOf(pendingBefore[i])
            => pendingBefore[i] \in Range(pending)

(***************************************************************************)
(* Membrane claims.  lastPoll holds a poll_status call in the state right   *)
(* after it returned, so `chan` and the session's history are those of the *)
(* call.                                                                   *)
(***************************************************************************)
\* C5 (as claimed): once the channel has published an Epoch with a seq above
\* the session's issuance seq, a poll_status on the session is a failed call
\* whose error message contains staleEpoch.  (Stated for the sessions whose
\* graft no send interleaved with.)
C5_StalePollFailsWithStaleEpoch ==
    /\ lastPoll # <<>>
    /\ ~lastPoll[1].session.raced
    /\ lastPoll[1].session.hist.advanced
    =>
        /\ lastPoll[1].result.rpc = "err"
        /\ Contains(lastPoll[1].result.msg, "staleEpoch")

\* C6: graft never fails, also after sessions have gone stale, and a session
\* polled with no send since its graft began answers Ok.
C6_RegraftedSessionPollsOk ==
    /\ lastGraft # "err"
    /\ lastPoll # <<>> /\ lastPoll[1].session.hist.quiet =>
           lastPoll[1].result = [rpc |-> "ok", status |-> "Ok", msg |-> <<>>]

\* a session is stale, and a session grafted after that has just polled Ok
C6_Witness ==
    /\ lastPoll # <<>>
    /\ lastPoll[1].session.hist.quiet
    /\ lastPoll[1].result.status = "Ok"
    /\ \E s \in sessions :
          /\ s.hist.wasStale
          /\ s.issued_epoch.seq # chan.seq
          /\ s.issued_epoch.seq # lastPoll[1].session.issued_epoch.seq

C8_PollOkIffSeqEqual ==
    lastPoll # <<>> =>
        ( (lastPoll[1].result.rpc = "ok" /\ lastPoll[1].result.status = "Ok")
          <=> chan.seq = lastPoll[1].session.status_poller.issuance_epoch.seq )

\* a second poll in a row answers Ok although a publication has changed head
\* and adopted_block (not seq) since the graft
C8_Witness ==
    /\ lastPoll # <<>>
    /\ lastPoll[1].repeat
    /\ lastPoll[1].result.status = "Ok"
    /\ chan.head # lastPoll[1].session.status_poller.issuance_epoch.head
    /\ chan.adopted_block # lastPoll[1].session.status_poller.issuance_epoch.adopted_block

\* C9: the issued epoch in the session, the poller's issuance epoch and the
\* epoch returned next to the session all equal the channel's value at the
\* moment graft read it, also when a send interleaves with graft.
C9_GraftBindsOneSnapshot ==
    \A s \in sessions :
        /\ s.issued_epoch = s.snapshot
        /\ s.status_poller.issuance_epoch = s.snapshot
        /\ s.epoch = s.snapshot

\* a session minted by a graft that a send of another epoch interleaved with
C9_Witness ==
    \E s \in sessions : s.raced /\ s.hist.wasStale /\ s.snapshot # chan

(***************************************************************************)
(* Indexer claims.                                                         *)
(***************************************************************************)
\* C10 (as claimed): over the whole of run(), across cycles, backfill and
\* subscription, cursor.last_processed_block never decreases from one step to
\* the next.
C10_CursorNeverDecreases == [][cursor' >= cursor]_vars

\* C11: whatever backfilled events, subscription events and head() results are
\* folded in, the seq an observer reads from current_head() never decreases,
\* and a head once known never becomes unknown.
C11_CurrentHeadSeqNonDecreasing ==
    [][current_head # <<>> =>
          /\ current_head' # <<>>
          /\ current_head'[1].seq >= current_head[1].seq]_vars

\* a subscription event of the first cycle with a seq below the head's was
\* folded in and current_head kept the greater seq
C11_Witness ==
    /\ lastCycle = "none"
    /\ ipc = "stream"
    /\ lastSent # <<>>
    /\ lastSent[1].block_number > run_tip
    /\ current_head # <<>>
    /\ lastSent[1].seq < current_head[1].seq

\* a publication: the step handed an event to event_tx.send, in backfill's
\* `for o in observed` or in the subscription loop
Published ==
    \/ ipc = "publish" /\ ipc' = "publish" /\ Len(observed') < Len(observed)
    \/ ipc = "stream" /\ ipc' = "stream" /\ lastSent' # lastSent

\* C12 (as claimed): of two events published between two consecutive
\* subscription opens, the later has (block_number, log_index) greater than or
\* equal to the earlier; stated on each publication and the one before it.
C12_OrderedBetweenSubscriptionOpens ==
    [][(Published /\ sentHist.in_window) => KeyLeq(lastSent[1], lastSent'[1])]_vars

\* C13 (as claimed): within one run_once cycle every published event has
\* (block_number, log_index) strictly greater than the event published before
\* it in that cycle.
C13_StrictlyAscendingWithinCycle ==
    [][(Published /\ sentHist.in_cycle) =>
          /\ KeyLeq(lastSent[1], lastSent'[1])
          /\ ~KeyLeq(lastSent'[1], lastSent[1])]_vars

InCycle == {"tip", "backfill", "publish", "connect", "head", "stream"}

C15_EveryErrorEndsTheCycle ==
    met.error # "none" => ipc = "sleep" /\ lastCycle = "err"

\* C16 (as claimed): a log that fails to decode, in a getLogs result or on the
\* subscription, is dropped and the cycle goes on.
C16_UndecodableLogDoesNotEndCycle ==
    met.bad_log # "none" => ipc \in InCycle

(***************************************************************************)
(* Finalizer claims, continued.                                            *)
(***************************************************************************)
\* C17 (as claimed): ConfirmationDepth(K).is_eligible(event, tip) is true
\* exactly when event.block_number + K does not overflow and tip is at least
\* that sum; when the sum overflows the result is false for every tip.
C17_EligibleIffDeepWithoutOverflow ==
    fnCall # <<>> /\ fnCall[1].fn = "is_eligible" =>
        LET c == fnCall[1]
        IN  c.result = (/\ c.ev.block_number + c.depth <= U64Max
                        /\ c.tip >= c.ev.block_number + c.depth)

Deep(e) == drainTip >= e.block_number + Depth

DrainReturnsOk == fpc = "draining" /\ fpc' = "idle" /\ lastDrain' = "ok"

\* what holds inside drain_eligible(tip) of the events that were pending when
\* it was entered: one at a block B with tip < B + K stays pending and is
\* neither visited nor output; one with tip >= B + K has left pending; every
\* output is one of the latter and matched the head() reply fetched for it
GatedByDepth ==
    fpc = "draining" =>
        /\ \A i \in DOMAIN pendingBefore :
              LET e == pendingBefore[i]
              IN  IF Deep(e)
                  THEN e \notin Range(pending)
                  ELSE /\ e \in Range(pending)
                       /\ e \notin Range(eligible)
                       /\ \A j \in DOMAIN out : out[j].fe # from_observed(e)
        /\ \A j \in DOMAIN out :
              /\ out[j].fe.block_number + Depth <= drainTip
              /\ out[j].head.seq = out[j].fe.seq /\ out[j].head.cid = out[j].fe.cid
              /\ \E i \in DOMAIN pendingBefore : from_observed(pendingBefore[i]) = out[j].fe

VisitDecides ==
    (fpc = "draining" /\ fpc' = "draining" /\ eligible' # eligible) =>
        LET ev == Head(eligible)
        IN  out' = IF dedup_key(ev) \notin emitted /\ chainHead = HeadOf(ev)
                   THEN Append(out, [fe |-> from_observed(ev), head |-> chainHead])
                   ELSE out

RepeatedDrain == fpc = "draining" /\ doneTip = <<drainTip>>

\* C20: a second drain_eligible(tip) with the same tip and no feed in between
\* returns Ok with an empty list and leaves pending and emitted as they were.
C20_SecondDrainIsEmpty ==
    [][/\ (fpc = "idle" /\ RepeatedDrain') =>
             pending' = pending /\ eligible' = <<>> /\ out' = <<>>
       /\ RepeatedDrain =>
             /\ out = <<>> /\ eligible = <<>>
             /\ pending' = pending /\ emitted' = emitted /\ drained' = drained
             /\ fpc' = "idle" => lastDrain' = "ok"]_vars

\* the repeated drain is running after a drain that output an event
C20_Witness ==
    /\ RepeatedDrain
    /\ lastDrain = "ok"
    /\ drained # <<>>
    /\ emitted # {}


(***************************************************************************)
(* ABI decoders.                                                           *)
(***************************************************************************)
HeadCall  == fnCall # <<>> /\ fnCall[1].fn = "decode_head_return"
EventCall == fnCall # <<>> /\ fnCall[1].fn = "decode_event_data_bytes"

C22_Offset64DecodesAsCanonical ==
    /\ (HeadCall /\ fnCall[1].layout = "offset64" /\ fnCall[1].whole)
          => fnCall[1].result =
                decode_head_return(HeadReturn_abi_encode(fnCall[1].seq, fnCall[1].cid))
    /\ (EventCall /\ fnCall[1].layout = "offset64" /\ fnCall[1].whole)
          => fnCall[1].result = decode_event_data_bytes(Bytes_abi_encode(fnCall[1].cid))

\* the buffer's offset word is the one the decoder reads first: word 1 of a
\* head return, word 0 of event data
OffsetWordInPlace ==
    \/ HeadCall /\ fnCall[1].layout = "offset64"
    \/ EventCall

\* C23: a buffer that holds fewer bytes than offset + 32 + declared length
\* (or is too short for the offset or length word) is rejected with an error
\* by both decoders.
C23_TruncatedInputRejected ==
    (OffsetWordInPlace /\ Len(fnCall[1].data) < fnCall[1].needs)
        => ~fnCall[1].result.ok

\* the first cycle of run() has computed its from_block and not yet ended
InFirstCycle ==
    /\ lastCycle = "none"
    /\ ipc \in {"tip", "backfill", "publish", "connect", "head", "stream"}

\* C24: the first backfill of a run starts at exactly config.start_block, for
\* every start_block including 0: the first cycle's range is [start_block, tip].
C24_FirstBackfillStartsAtStartBlock == InFirstCycle => from_block = start_block


BuildCalled == fnCall # <<>> /\ fnCall[1].fn = "build"

\* C25: build() fails, constructing no Finalizer, when http_url or
\* contract_address has not been set; a missing strategy is no error and gives
\* ConfirmationDepth(6); a built Finalizer has an empty pending buffer and an
\* empty emitted set.
C25_BuildRequiresUrlAndAddress ==
    BuildCalled =>
        LET b == fnCall[1].builder
            r == fnCall[1].result
        IN  /\ (b.http_url = <<>> \/ b.contract_address = <<>>) => ~r.ok
            /\ (b.strategy = <<>> /\ b.http_url # <<>> /\ b.contract_address # <<>>
                  /\ fnCall[1].client_ok) => (r.ok /\ r.strategy = 6)
            /\ r.ok => (r.pending = <<>> /\ r.emitted = {})

C25_Witness ==
    /\ BuildCalled
    /\ fnCall[1].builder.strategy # <<>>
    /\ fnCall[1].builder.http_url # <<>>
    /\ fnCall[1].builder.contract_address = <<>>
    /\ ~fnCall[1].result.ok


\* a receiver has lost values to the ring and received one after that
C26_Skipped(r) ==
    /\ bcRx[r] # <<>>
    /\ \E i \in 1..(Len(bcRx[r][1].got) - 1) :
            bcRx[r][1].got[i + 1] > bcRx[r][1].got[i] + 1

\* C26: what a subscriber receives is a subsequence of what the indexer
\* published, in the order of publication: values may be skipped when the
\* reader lags behind the ring, but never reordered or repeated.
C26_ReceivedInPublishedOrder ==
    \A r \in Subscribers :
        bcRx[r] # <<>> =>
            LET got == bcRx[r][1].got
            IN  /\ \A i \in DOMAIN got : got[i] \in 1..bcCount
                /\ \A i, j \in DOMAIN got : i < j => got[i] < got[j]

C26_Witness == \E r \in Subscribers : C26_Skipped(r)


\* every output of the drain in progress was pending when the drain began
OutputWasPending ==
    fpc = "draining" =>
        \A j \in DOMAIN out :
            \E i \in DOMAIN pendingBefore : out[j].fe = from_observed(pendingBefore[i])

\* C27: when drain_eligible(tip) returns Ok, pending holds exactly the events
\* that were pending before and are not eligible at tip, in their previous
\* order, whether or not the removed ones were output; an event enters pending
\* only by feed, and a drain outputs only events that were pending when it
\* began, so a removed event is not output later unless it is fed again.
C27_DrainLeavesTheIneligible ==
    [][/\ DrainReturnsOk =>
             pending' = SelectSeq(pendingBefore, LAMBDA e : ~is_eligible(e, drainTip))
       /\ (Range(pending') \subseteq Range(pending)) \/ nfeeds' = nfeeds + 1
       /\ OutputWasPending']_vars

\* a drain returned Ok having removed an event that it did not output, and
\* having left another one pending
C27_Witness ==
    /\ fpc = "idle" /\ lastDrain = "ok"
    /\ pending # <<>>
    /\ \E e \in DOMAIN fed :
          /\ e \notin Range(pending)
          /\ dedup_key(e) \notin emitted


\* backfill has fetched and published slice [bfFrom, bfTo] and moves on
SliceCompleted == ipc = "publish" /\ observed = <<>> /\ ipc' \in {"backfill", "panicked"}

\* C28: during backfill the cursor is advanced after each slice: once slice
\* [from, slice_end] has been fetched and published, cursor.last_processed_block
\* equals slice_end.
C28_CursorAdvancedAfterEachSlice ==
    [][SliceCompleted => cursor' = bfTo]_vars


\* C29: a backfill of [from, tip] with from <= tip queries consecutive,
\* non-overlapping slices of at most getlogs_max_range blocks that together
\* cover [from, tip] once in ascending order: the first slice starts at from,
\* each slice [a, b] has a <= b <= tip and b - a < getlogs_max_range, the next
\* slice starts at b + 1, and the backfill returns Ok when b = tip.
C29_SlicesCoverRangeOnce ==
    [][/\ (ipc = "tip" /\ ipc' = "backfill") => bfFrom' = from_block
       /\ (ipc = "backfill" /\ ipc' = "publish") =>
              /\ bfFrom <= bfTo' /\ bfTo' <= run_tip
              /\ bfTo' - bfFrom < GetlogsMaxRange
              /\ (bfTo' < run_tip => bfTo' - bfFrom = GetlogsMaxRange - 1)
       /\ (ipc = "publish" /\ ipc' = "backfill") => bfFrom' = bfTo + 1
       /\ (ipc = "backfill" /\ ipc' = "connect") => bfFrom = run_tip + 1]_vars


BackoffCalled == fnCall # <<>> /\ fnCall[1].fn = "backoff"

\* C30: whenever a run cycle ends, by connection close or by error, the delay
\* before the next cycle is min(initial_backoff_secs * 2, max_backoff_secs)
\* seconds plus a jitter of 0 to 500 ms, and so never more than
\* max_backoff_secs + 500 ms.
C30_DelayIsDoubledInitialCapped ==
    BackoffCalled =>
        LET c == fnCall[1]
            twice == c.initial_backoff_secs * 2
            base == IF twice <= c.max_backoff_secs THEN twice ELSE c.max_backoff_secs
        IN  /\ ~c.result.panic
            /\ c.result.delay_ms >= base * 1000
            /\ c.result.delay_ms <= base * 1000 + 500
            /\ c.result.delay_ms <= c.max_backoff_secs * 1000 + 500


\* the monotonicity rule, as the claims state it: the candidate replaces the
\* stored head when there is none or when its seq is not smaller
Folded(cur, h) == IF cur = <<>> \/ h.seq >= cur[1].seq THEN <<h>> ELSE cur

\* C31: in a cycle that opens a subscription the head() call is made exactly
\* once, after the handshake and before any subscription log is processed, and
\* its result is folded into current_head by the monotonicity rule: the call
\* is entered only from the handshake, is left in one step for the stream
\* loop, the stream loop is entered only from it, a reply h gives
\* current_head' = Folded(current_head, h), and in the stream loop
\* current_head changes only by the fold of a published event.
C31_HeadCalledOnceBeforeStream ==
    [][/\ (ipc' = "head" /\ ipc # "head") => ipc = "connect"
       /\ (ipc' = "stream" /\ ipc # "stream") => ipc = "head"
       /\ (ipc = "head" /\ ipc' # "head") =>
              /\ ipc' = "stream"
              /\ lastSent' = lastSent
              /\ IF met'.error = "head"
                 THEN current_head' = current_head
                 ELSE \E h \in IndexerHeads : current_head' = Folded(current_head, h)
       /\ (ipc = "stream" /\ current_head' # current_head) =>
              /\ lastSent' # <<>>
              /\ current_head' = Folded(current_head,
                                        [seq |-> lastSent'[1].seq, cid |-> lastSent'[1].cid])]_vars

\* the stream loop has been entered with a head that only head() can have set
C31_Witness ==
    /\ ipc = "stream"
    /\ lastSent = <<>>
    /\ current_head # <<>>


FoldCalled == fnCall # <<>> /\ fnCall[1].fn = "set_current_head_if_newer"

\* C32: current_head is replaced by a candidate H exactly when it is absent or
\* H.seq >= current_head.seq (an equal seq replaces, a smaller one leaves it
\* unchanged); so after any sequence of updates current_head holds the greatest
\* seq among the candidates folded so far.
C32_ReplacedIffNotSmaller ==
    FoldCalled =>
        LET c == fnCall[1]
            H == c.cands[Len(c.cands)]
        IN  /\ (c.before = <<>> \/ H.seq >= c.before[1].seq) => c.result = <<H>>
            /\ (c.before # <<>> /\ H.seq < c.before[1].seq) => c.result = c.before
            /\ \A i \in DOMAIN c.cands : c.cands[i].seq <= c.result[1].seq
            /\ \E i \in DOMAIN c.cands : c.cands[i] = c.result[1]

\* a candidate with the stored seq and another cid has replaced the stored head
C32_Witness ==
    /\ FoldCalled
    /\ fnCall[1].before # <<>>
    /\ fnCall[1].result # fnCall[1].before
    /\ fnCall[1].result[1].seq = fnCall[1].before[1].seq


\* the log is one of the configured contract with the HeadUpdated topic0
IsHeadUpdatedOfContract(log) ==
    /\ log.address = "contract"
    /\ log.topics # <<>>
    /\ Len(log.topics[1]) >= 4
    /\ SubSeq(log.topics[1], 1, 4) = <<133, 242, 203, 46>>

\* C33: every event the indexer publishes comes from a log of the configured
\* contract whose topic0 begins with the HeadUpdated discriminator, on the
\* backfill path and on the subscription path, also when the endpoint ignores
\* the topic filter and returns logs with other topics.
C33_OnlyHeadUpdatedLogsPublished ==
    /\ (fnCall # <<>> /\ fnCall[1].fn = "backfill_slice") =>
          \A i \in DOMAIN fnCall[1].result.observed :
              IsHeadUpdatedOfContract(fnCall[1].result.observed[i])
    /\ (fnCall # <<>> /\ fnCall[1].fn = "subscription_log"
          /\ fnCall[1].result = "publish") =>
          IsHeadUpdatedOfContract(fnCall[1].log)


\* C34: the run task never holds the current_head lock while an RPC call is
\* in progress, and a current_head() caller that waits for the lock obtains
\* it: no reader waits forever, whatever the RPC calls do.
C34_NoLockAcrossRpcReadersServed ==
    /\ [](upc = "rpc" => ~lkWriter /\ 0 \notin Range(lkQueue))
    /\ \A r \in Readers : (rdpc[r] = "waiting") ~> (rdpc[r] = "holding")

\* a reader waits for the lock behind the writer while another head() call
\* could start
C34_Witness ==
    /\ lkWriter
    /\ \E r \in Readers : rdpc[r] = "waiting"
    /\ lkHead # <<>>


\* C35: a Watcher.next() call that returns an epoch returns only after a send
\* on the epoch channel that happened after the previous next() on that
\* watcher returned (after the watcher was created, for the first call), and
\* the epoch it returns is the channel's value.
C35_NextReturnsOnlyAfterChange ==
    lastNext # <<>> /\ lastNext[1].ok =>
        /\ lastNext[1].sends_since > 0
        /\ lastNext[1].epoch = lastNext[1].channel_value


\* the values a map binds to a text key, and whether it binds exactly one
BoundTo(map, key) ==
    { map[i].value : i \in { j \in DOMAIN map :
                                map[j].key.kind = "Text" /\ map[j].key.text = key } }

KeysUnique(map) ==
    \A i, j \in DOMAIN map : map[i].key = map[j].key => i = j

TheValue(map, key) == CHOOSE v \in BoundTo(map, key) : TRUE

\* the checks in the claimed order; each is <<passes, error when it fails>>
TrieChecks(map) ==
    LET has(k) == BoundTo(map, k) # {}
        int(k) == TheValue(map, k).kind = "Integer"
        val(k) == TheValue(map, k).int
        E(tag, key, expected, got) ==
            [tag |-> tag, key |-> key, expected |-> expected, got |-> got]
    IN  << <<has("schema"), E("MissingKey", "schema", "", 0)>>,
           <<has("schema") => int("schema"), E("WrongType", "schema", "integer", 0)>>,
           <<has("schema") /\ int("schema") => val("schema") = 0,
             E("WrongSchema", "", "", IF has("schema") THEN val("schema") ELSE 0)>>,
           <<has("fanout"), E("MissingKey", "fanout", "", 0)>>,
           <<has("fanout") => int("fanout"), E("WrongType", "fanout", "integer", 0)>>,
           <<has("fanout") /\ int("fanout") => val("fanout") > 0,
             E("InvalidFanout", "", "", IF has("fanout") THEN val("fanout") ELSE 0)>>,
           <<has("root"), E("MissingKey", "root", "", 0)>>,
           <<has("root") => TheValue(map, "root").kind \in {"Bytes", "Text"},
             E("WrongType", "root", "bytes or string", 0)>>,
           <<has("size"), E("MissingKey", "size", "", 0)>>,
           <<has("size") => int("size"), E("WrongType", "size", "integer", 0)>>,
           <<has("size") /\ int("size") => val("size") >= 0,
             E("InvalidSize", "", "", IF has("size") THEN val("size") ELSE 0)>> >>

ValidateCalled == fnCall # <<>> /\ fnCall[1].fn = "validate_trie_root_v0"

\* C36: validate_trie_root_v0 gives Decode for what is not CBOR and NotAMap
\* for a value that is not a map; for a map (no key occurring twice) it
\* succeeds exactly when schema is the integer 0, fanout an integer > 0, root
\* bytes or text and size an integer >= 0, returning that fanout, root (the
\* bytes, or the bytes of the text) and size whatever meta or other keys the
\* map holds, and otherwise gives the error of the first failing check.
C36_ValidatesTrieRootV0 ==
    ValidateCalled =>
        LET decoded == fnCall[1].decoded
            result == fnCall[1].result
        IN  /\ decoded = <<>> => ~result.ok /\ result.err.tag = "Decode"
            /\ decoded # <<>> /\ decoded[1].kind # "Map" =>
                   ~result.ok /\ result.err.tag = "NotAMap"
            /\ decoded # <<>> /\ decoded[1].kind = "Map" /\ KeysUnique(decoded[1].entries) =>
                 LET map == decoded[1].entries
                     checks == TrieChecks(map)
                     failing == { i \in DOMAIN checks : ~checks[i][1] }
                 IN  /\ result.ok <=> failing = {}
                     /\ failing # {} =>
                            result.err = checks[CHOOSE i \in failing : \A j \in failing : i <= j][2]
                     /\ failing = {} =>
                            /\ result.fanout = TheValue(map, "fanout").int
                            /\ result.size = TheValue(map, "size").int
                            /\ result.root = IF TheValue(map, "root").kind = "Bytes"
                                             THEN TheValue(map, "root").bytes
                                             ELSE as_bytes(TheValue(map, "root").text)

\* a valid root given as text, with a meta of the wrong type and a key that is
\* not a text in the map
C36_Witness ==
    /\ ValidateCalled
    /\ fnCall[1].result.ok
    /\ fnCall[1].result.root = <<81, 109>>
    /\ fnCall[1].result.size = 0
    /\ KeysUnique(fnCall[1].decoded[1].entries)
    /\ \E i \in DOMAIN fnCall[1].decoded[1].entries :
          fnCall[1].decoded[1].entries[i].key.kind = "Integer"
    /\ \E i \in DOMAIN fnCall[1].decoded[1].entries :
          fnCall[1].decoded[1].entries[i].key = VText("meta")


\* C37: no decodable log is lost: a log mined in a block above the cycle's
\* tip before the subscription was active, and neither fetched by a slice nor
\* delivered by the subscription so far, lies above the cursor, so that the
\* next backfill (from cursor + 1) still fetches it.
C37_NoMinedLogSkipped ==
    missed # <<>> => cursor < missed[1]


BackfillIterationCalled == fnCall # <<>> /\ fnCall[1].fn = "backfill_iteration"

\* C38: every iteration of backfill's slice loop strictly increases `from`,
\* for every from <= tip and every getlogs_max_range including 0 (here for
\* the inputs on which from + max_range and tip + 1 do not overflow).
C38_BackfillIterationAdvances ==
    BackfillIterationCalled
        /\ fnCall[1].from + fnCall[1].max_range <= U64Max
        /\ fnCall[1].to_block < U64Max
    => /\ ~fnCall[1].result.panic
       /\ fnCall[1].result.from > fnCall[1].from


\* C39: across all drain_eligible outputs of one Finalizer no two finalized
\* events carry the same seq.
C39_FinalizedSeqsDistinct ==
    \A i, j \in DOMAIN drained : drained[i].fe.seq = drained[j].fe.seq => i = j


\* the dedup key of the log a finalized event was made from
KeyOfFinalized(fe) == <<fe.tx_hash_hex, ":", fe.log_index>>

\* C40: between two drain_eligible calls, every key in the emitted set is the
\* key of an event that some drain_eligible output has returned.
C40_EmittedWereDelivered ==
    fpc = "idle" =>
        \A key \in emitted : \E i \in DOMAIN drained : KeyOfFinalized(drained[i].fe) = key

=============================================================================
